---- MODULE Spec2Model ----
(***************************************************************************)
(* A model of seeed (christophemaillot/seeed): the interpreter of          *)
(* src/src/script.rs with its built-in functions                            *)
(* (src/src/built_in_functions.rs) driving an abstract RemoteExecutor, and  *)
(* the SSH implementation of the executor's run operation                   *)
(* (src/src/sshclient.rs).                                                  *)
(*                                                                         *)
(* Text is a sequence of one-character strings, so that template expansion *)
(* and display conversion are computed character by character.  Names of   *)
(* variables and functions are TLA+ strings.                               *)
(***************************************************************************)
EXTENDS Integers, Sequences, FiniteSets, TLC

VARIABLES
    \* ScriptContext (src/src/script.rs:61-68)
    target,        \* Option<String>: the target given at construction
    variables,     \* HashMap<String, Literal>
    connected,     \* bool
    script,        \* the parsed program (ScriptAST.statements)
    debug,         \* the debug flag handed to run
    \* position of run / execute_statement (the recursion made explicit)
    stack,         \* frames of execute_statement, innermost last
    status,        \* "new", "running", "ok", "err"
    error,         \* the SeeedError run returned
    trace,         \* side effects in order: executor calls, local exec, echo
    printed,       \* the debug listing was printed
    \* main (src/src/main.rs:38-70)
    reported,      \* the final status line: "none", "completed", "failed"
    exit_code,     \* what the process reports: "none", "success", "failure"
    \* SshClient (src/src/sshclient.rs:42-45)
    session,       \* Option<Session> is Some
    use_sudo,      \* SshClient.use_sudo
    \* the remote process started by run_impl
    remote_exit,   \* its exit status
    stdoutAll,     \* all the bytes it writes on stdout
    stderrAll,     \* the same for stderr
    \* SshClient::run_impl (src/src/sshclient.rs:140-248)
    rpc,           \* position in run_impl
    blocking,      \* the session's blocking mode
    remoteFile,    \* state of the ephemeral script file on the remote host
    guard,         \* the RemoteTempFile guard exists
    unlinks,       \* unlink requests issued for the ephemeral file, in order
    execCmd,       \* the command line handed to channel.exec
    stdoutSrc,     \* bytes the remote process has still to deliver on stdout
    stderrSrc,     \* the same for stderr
    stdout_buf,
    stderr_buf,
    stdout_done,
    stderr_done,
    made_progress,
    slept,         \* the polling loop slept at the end of its last iteration
    console,       \* what was printed for each stream, in order
    rresult,       \* what run_impl returned: "none", "ok", or the failing step
    \* SshClient::upload_impl (src/src/sshclient.rs:250-280)
    upc,           \* position in upload_impl
    upload_content,  \* the bytes to upload (`content`)
    files,         \* the remote files: path -> None or Some(bytes)
    temp_guard,    \* the RemoteTempFile guard of the staged file exists
    temp_unlinks,  \* results of the unlink requests for the staged file
    mv,            \* the remote `sudo mv`: "none", "started", "moved", "nofile"
    uresult,       \* what upload_impl returned: "none", "ok", or the failing step
    \* SshClient::connect_impl (src/src/sshclient.rs:74-125)
    cpc,           \* position in connect_impl
    conn_target,   \* the target text handed to connect
    identities,    \* the identities the agent lists, in its order
    tried,         \* the userauth attempts made: identity and outcome, in order
    authenticated,
    cresult,       \* what connect_impl returned: "none", "ok", or the error
    \* the parsing step of ScriptContext::run (src/src/script.rs:100-134)
    contents,      \* the text of the script
    pstatus,       \* "idle", "new", "parsed", "failed"
    ast,           \* the statements of the parsed program
    perror         \* the ParseError reported: [position, line, col, line_content]

ctxVars == <<target, variables, connected, script, debug, stack, status, error,
             trace, printed>>
mainVars == <<reported, exit_code>>
clientVars == <<session, use_sudo>>
procVars == <<remote_exit, stdoutAll, stderrAll>>
runVars == <<rpc, blocking, remoteFile, guard, unlinks, execCmd,
             stdoutSrc, stderrSrc, stdout_buf, stderr_buf, stdout_done,
             stderr_done, made_progress, slept, console, rresult>>
upVars == <<upc, upload_content, files, temp_guard, temp_unlinks, mv, uresult>>
connVars == <<cpc, conn_target, identities, tried, authenticated, cresult>>
parseVars == <<contents, pstatus, ast, perror>>
vars == <<ctxVars, mainVars, clientVars, procVars, runVars, upVars, connVars,
          parseVars>>
\* what the interpreter's steps leave alone, and what the steps of run_impl do
\* (run_impl never asks for the remote process's exit status)
notCtx == <<mainVars, clientVars, procVars, runVars, upVars, connVars, parseVars>>
notRun == <<ctxVars, mainVars, procVars, upVars, connVars, parseVars>>
notUpload == <<ctxVars, mainVars, clientVars, procVars, runVars, connVars,
               parseVars>>

---------------------------------------------------------------------------
(* Characters and text                                                     *)

Letters ==
    {"a", "b", "c", "d", "e", "f", "g", "h", "i", "j", "k", "l", "m", "n", "o",
     "p", "q", "r", "s", "t", "u", "v", "w", "x", "y", "z"}

Digits == {"0", "1", "2", "3", "4", "5", "6", "7", "8", "9"}

DigitChar(d) ==
    CASE d = 0 -> "0" [] d = 1 -> "1" [] d = 2 -> "2" [] d = 3 -> "3"
      [] d = 4 -> "4" [] d = 5 -> "5" [] d = 6 -> "6" [] d = 7 -> "7"
      [] d = 8 -> "8" [] d = 9 -> "9"

RECURSIVE NatToChars(_)
NatToChars(n) ==
    IF n < 10 THEN <<DigitChar(n)>>
    ELSE NatToChars(n \div 10) \o <<DigitChar(n % 10)>>

\* i64's Display: a minus sign and the decimal digits
IntToChars(i) ==
    IF i < 0 THEN <<"-">> \o NatToChars(0 - i) ELSE NatToChars(i)

RECURSIVE JoinChars(_)
JoinChars(cs) ==
    IF cs = <<>> THEN "" ELSE Head(cs) \o JoinChars(Tail(cs))

---------------------------------------------------------------------------
(* Values (parser.rs Literal) and their display form                       *)

StringV(cs) == [tag |-> "String", v |-> cs]
HereDocV(cs) == [tag |-> "HereDoc", v |-> cs]
IntegerV(i) == [tag |-> "Integer", v |-> i]
BoolV(b) == [tag |-> "Bool", v |-> b]
ArrayV(vs) == [tag |-> "Array", v |-> vs]
VoidV == [tag |-> "Void", v |-> 0]

\* impl Display for Literal
to_string(lit) ==
    CASE lit.tag = "HereDoc" -> lit.v
      [] lit.tag = "String" -> lit.v
      [] lit.tag = "Integer" -> IntToChars(lit.v)
      [] lit.tag = "Bool" ->
            IF lit.v THEN <<"t", "r", "u", "e">> ELSE <<"f", "a", "l", "s", "e">>
      [] lit.tag = "Array" -> <<"<", "<", "a", "r", "r", "a", "y", ">", ">">>
      [] lit.tag = "Void" -> <<"v", "o", "i", "d">>

---------------------------------------------------------------------------
(* Template expansion: ScriptContext::resolve_template renders the source  *)
(* with minijinja's default environment against the variables, each value  *)
(* serialized as its display string.  The subset modelled is raw text and  *)
(* `{{ identifier }}` blocks; source texts use letters, digits, spaces,    *)
(* newlines, underscores and braces only.  With minijinja's defaults an    *)
(* undefined name prints as the empty string, and one trailing newline of  *)
(* the source is dropped.                                                  *)

IsIdentStart(c) == c \in Letters \/ c = "_"
IsIdentChar(c) == c \in Letters \/ c \in Digits \/ c = "_"
IsSpace(c) == c \in {" ", "\t", "\n", "\r"}

RECURSIVE SkipSpaces(_, _)
SkipSpaces(src, i) ==
    IF i <= Len(src) /\ IsSpace(src[i]) THEN SkipSpaces(src, i + 1) ELSE i

RECURSIVE IdentEnd(_, _)
IdentEnd(src, i) ==
    IF i <= Len(src) /\ IsIdentChar(src[i]) THEN IdentEnd(src, i + 1) ELSE i

\* the value a template name prints as
LookupText(env, name) ==
    IF name \in DOMAIN env THEN to_string(env[name]) ELSE <<>>

RECURSIVE Render(_, _, _)
Render(src, i, env) ==
    IF i > Len(src) THEN [ok |-> TRUE, text |-> <<>>]
    ELSE IF src[i] = "{" /\ i + 1 <= Len(src) /\ src[i + 1] = "{" THEN
        LET j == SkipSpaces(src, i + 2)
            k == IdentEnd(src, j)
            m == SkipSpaces(src, k)
        IN  IF /\ j <= Len(src) /\ IsIdentStart(src[j])
               /\ m + 1 <= Len(src) /\ src[m] = "}" /\ src[m + 1] = "}"
            THEN LET rest == Render(src, m + 2, env)
                     name == JoinChars(SubSeq(src, j, k - 1))
                 IN  [ok |-> rest.ok, text |-> LookupText(env, name) \o rest.text]
            ELSE [ok |-> FALSE, text |-> <<>>]
    ELSE LET rest == Render(src, i + 1, env)
         IN  [ok |-> rest.ok, text |-> <<src[i]>> \o rest.text]

DropTrailingNewline(src) ==
    IF Len(src) > 0 /\ src[Len(src)] = "\n" THEN SubSeq(src, 1, Len(src) - 1)
    ELSE src

\* ScriptContext::resolve_template: [ok, text]; ok = FALSE is SeeedError::Template
resolve_template(source, env) ==
    LET r == Render(DropTrailingNewline(source), 1, env)
    IN  IF r.ok THEN r ELSE [ok |-> FALSE, text |-> <<>>]

---------------------------------------------------------------------------
(* Errors (error.rs SeeedError): a kind and its payload                    *)

Err(kind, info) == [kind |-> kind, info |-> info]
NoError == Err("none", <<>>)

---------------------------------------------------------------------------
(* Expressions (parser.rs Expression) and their evaluation.                *)
(* The parser's expression() yields Literal, Array, HereDoc and Variable;  *)
(* it has no alternative producing Expression::FnCall, so a parsed program *)
(* holds none.                                                             *)

LiteralE(lit) == [e |-> "Literal", v |-> lit]
VariableE(name) == [e |-> "Variable", v |-> name]
ArrayE(exprs) == [e |-> "Array", v |-> exprs]
HereDocE(cs) == [e |-> "HereDoc", v |-> cs]

Value(val) == [ok |-> TRUE, val |-> val, err |-> NoError]
Failure(err) == [ok |-> FALSE, val |-> VoidV, err |-> err]

\* (variant: the text is stored as written, to be expanded when it is used)
Expand_raw(tag, content, env) == Value([tag |-> tag, v |-> content])

\* the text of a String / HereDoc literal, expanded and wrapped again
Expand(tag, content, env) ==
    LET r == resolve_template(content, env)
    IN  IF r.ok THEN Value([tag |-> tag, v |-> r.text])
        ELSE Failure(Err("Template", <<>>))

\* (variant: an unbound variable yields a default value)
lookup_variable_default(name, env) ==
    IF name \in DOMAIN env THEN Value(env[name]) ELSE Value(VoidV)

\* Expression::Variable: self.variables.get(name)
lookup_variable(name, env) ==
    IF name \in DOMAIN env THEN Value(env[name])
    ELSE Failure(Err("UndefinedVar", <<name>>))

RECURSIVE evaluate(_, _)
RECURSIVE EvaluateAll(_, _)

\* the elements in order, stopping at the first that fails: [ok, vals, err]
EvaluateAll(exprs, env) ==
    IF exprs = <<>> THEN [ok |-> TRUE, vals |-> <<>>, err |-> NoError]
    ELSE LET first == evaluate(Head(exprs), env)
         IN  IF ~first.ok THEN [ok |-> FALSE, vals |-> <<>>, err |-> first.err]
             ELSE LET rest == EvaluateAll(Tail(exprs), env)
                  IN  IF ~rest.ok THEN rest
                      ELSE [ok |-> TRUE, vals |-> <<first.val>> \o rest.vals,
                            err |-> NoError]

\* ScriptContext::evaluate
evaluate(expression, env) ==
    CASE expression.e = "Literal" ->
            IF expression.v.tag \in {"HereDoc", "String"}
            THEN Expand(expression.v.tag, expression.v.v, env)
            ELSE Value(expression.v)
      [] expression.e = "Variable" -> lookup_variable(expression.v, env)
      [] expression.e = "Array" ->
            LET all == EvaluateAll(expression.v, env)
            IN  IF all.ok THEN Value(ArrayV(all.vals)) ELSE Failure(all.err)
      [] expression.e = "HereDoc" -> Expand("HereDoc", expression.v, env)

---------------------------------------------------------------------------
(* Statements (parser.rs Statement)                                        *)

Comment == [s |-> "Comment"]
EmptyLine == [s |-> "EmptyLine"]
Assign(name, expr) == [s |-> "Assign", name |-> name, expr |-> expr]
RemoteSingle(text) == [s |-> "RemoteSingle", text |-> text]
Remote(lines) == [s |-> "Remote", lines |-> lines]
FnCall(name, args) == [s |-> "FnCall", name |-> name, args |-> args]
ForLoop(var, expr, body) ==
    [s |-> "ForLoop", var |-> var, expr |-> expr, body |-> body]

---------------------------------------------------------------------------
(* The abstract RemoteExecutor (sshclient.rs:35-40) as the interpreter     *)
(* sees it: each call is recorded with its arguments and whether it        *)
(* returned Ok; the outcome of a call is chosen by the environment.        *)

None == [some |-> FALSE, v |-> <<>>]
Some(x) == [some |-> TRUE, v |-> x]

\* res is "Ok" or the failure the call returned
Call(op, a, b, res) == [op |-> op, a |-> a, b |-> b, res |-> res]

ConnectOutcomes == {"Ok", "BadTarget", "SshError"}
RunOutcomes == {"Ok", "SshError"}
UploadOutcomes == {"Ok", "SshError"}
\* sh -c <command>: started and exited 0, could not be started, exited non-zero
ExecOutcomes == {"Ok", "SpawnFailed", "NonZero"}
\* std::fs::read of the local source file
FileReads == {[ok |-> FALSE, bytes |-> <<>>], [ok |-> TRUE, bytes |-> <<"d">>]}

\* what one statement did: its result, the connection flag, the calls it
\* made and the environment it leaves
Res(ok, err, conn, calls, env) ==
    [ok |-> ok, err |-> err, conn |-> conn, calls |-> calls, env |-> env]

OutcomeErr(o) == IF o = "Ok" THEN NoError ELSE Err(o, <<>>)

---------------------------------------------------------------------------
(* ScriptContext::ensure_connected: [ok, err, conn, calls]                 *)

\* (variant: the connected flag is not consulted)
is_connected_never == FALSE

\* `if self.connected { return Ok(()) }`
is_connected == connected

\* (variant: a script variable named target is preferred to the given target)
resolve_target_scriptvar ==
    IF "target" \in DOMAIN variables THEN Some(to_string(variables["target"]))
    ELSE target

\* `if let Some(target) = &self.target { target.clone() } else { return Err }`
resolve_target == target

\* (variant: the result of connect is dropped instead of propagated)
ensure_connected_swallow(co) ==
    IF is_connected
    THEN [ok |-> TRUE, err |-> NoError, conn |-> connected, calls |-> <<>>]
    ELSE IF ~resolve_target.some
    THEN [ok |-> FALSE, err |-> Err("BadTarget", <<>>), conn |-> connected,
          calls |-> <<>>]
    ELSE [ok |-> TRUE, err |-> NoError, conn |-> TRUE,
          calls |-> <<Call("connect", resolve_target.v, <<>>, co)>>]

ensure_connected(co) ==
    IF is_connected
    THEN [ok |-> TRUE, err |-> NoError, conn |-> connected, calls |-> <<>>]
    ELSE IF ~resolve_target.some
    THEN [ok |-> FALSE, err |-> Err("BadTarget", <<>>), conn |-> connected,
          calls |-> <<>>]
    ELSE IF co # "Ok"
    THEN [ok |-> FALSE, err |-> OutcomeErr(co), conn |-> connected,
          calls |-> <<Call("connect", resolve_target.v, <<>>, co)>>]
    ELSE [ok |-> TRUE, err |-> NoError, conn |-> TRUE,
          calls |-> <<Call("connect", resolve_target.v, <<>>, "Ok")>>]

RECURSIVE JoinLines(_)
\* lines.join("\n")
JoinLines(lines) ==
    IF lines = <<>> THEN <<>>
    ELSE IF Len(lines) = 1 THEN lines[1]
    ELSE lines[1] \o <<"\n">> \o JoinLines(Tail(lines))

\* Statement::RemoteSingle and Statement::Remote, on the (joined) text
execute_remote(text, co, ro) ==
    LET ec == ensure_connected(co)
    IN  IF ~ec.ok THEN Res(FALSE, ec.err, ec.conn, ec.calls, variables)
        ELSE LET line == resolve_template(text, variables)
             IN  IF ~line.ok
                 THEN Res(FALSE, Err("Template", <<>>), ec.conn, ec.calls, variables)
                 ELSE Res(ro = "Ok", OutcomeErr(ro), ec.conn,
                          ec.calls \o <<Call("run", line.text, <<>>, ro)>>,
                          variables)

\* HashMap::insert
Insert(env, name, val) ==
    [n \in DOMAIN env \cup {name} |-> IF n = name THEN val ELSE env[n]]

\* (variant: a failed evaluation leaves the name bound to Void)
execute_assign_void(name, expr) ==
    LET literal == evaluate(expr, variables)
    IN  IF ~literal.ok
        THEN Res(FALSE, literal.err, connected, <<>>,
                 Insert(variables, name, VoidV))
        ELSE Res(TRUE, NoError, connected, <<>>,
                 Insert(variables, name, literal.val))

\* Statement::Assign
execute_assign(name, expr) ==
    LET literal == evaluate(expr, variables)
    IN  IF ~literal.ok THEN Res(FALSE, literal.err, connected, <<>>, variables)
        ELSE Res(TRUE, NoError, connected, <<>>, Insert(variables, name, literal.val))

---------------------------------------------------------------------------
(* Built-in functions (built_in_functions.rs)                              *)

execute_echo(args) ==
    Res(TRUE, NoError, connected,
        [i \in 1..Len(args) |-> Call("echo", to_string(args[i]), <<>>, "Ok")],
        variables)

\* (variant: the kinds of the arguments are not checked)
execute_upload_untyped(args, fr, uo) ==
    IF Len(args) # 2
    THEN Res(FALSE, Err("WrongArgCount", <<2, Len(args)>>), connected, <<>>, variables)
    ELSE Res(uo = "Ok", OutcomeErr(uo), connected,
             <<Call("upload", to_string(args[1]), to_string(args[2]), uo)>>,
             variables)

\* (variant: the kind of the first argument is checked before the count)
execute_upload_typefirst(args, fr, uo) ==
    IF Len(args) >= 1 /\ args[1].tag \notin {"String", "HereDoc"}
    THEN Res(FALSE, Err("BadArgType", <<1>>), connected, <<>>, variables)
    ELSE IF Len(args) # 2
    THEN Res(FALSE, Err("WrongArgCount", <<2, Len(args)>>), connected, <<>>, variables)
    ELSE IF args[2].tag # "String"
    THEN Res(FALSE, Err("BadArgType", <<2>>), connected, <<>>, variables)
    ELSE Res(uo = "Ok", OutcomeErr(uo), connected,
             <<Call("upload", args[1].v, to_string(args[2]), uo)>>, variables)

execute_upload(args, fr, uo) ==
    IF Len(args) # 2
    THEN Res(FALSE, Err("WrongArgCount", <<2, Len(args)>>), connected, <<>>, variables)
    ELSE IF args[1].tag \notin {"String", "HereDoc"}
    THEN Res(FALSE, Err("BadArgType", <<1>>), connected, <<>>, variables)
    ELSE IF args[2].tag # "String"
    THEN Res(FALSE, Err("BadArgType", <<2>>), connected, <<>>, variables)
    ELSE IF args[1].tag = "HereDoc"
    THEN Res(uo = "Ok", OutcomeErr(uo), connected,
             <<Call("upload", args[1].v, to_string(args[2]), uo)>>, variables)
    ELSE IF ~fr.ok
    THEN Res(FALSE, Err("BadArgument", <<>>), connected, <<>>, variables)
    ELSE Res(uo = "Ok", OutcomeErr(uo), connected,
             <<Call("upload", fr.bytes, to_string(args[2]), uo)>>, variables)

execute_exec(args, xo) ==
    IF Len(args) # 1
    THEN Res(FALSE, Err("WrongArgCount", <<1, Len(args)>>), connected, <<>>, variables)
    ELSE Res(xo = "Ok",
             IF xo = "Ok" THEN NoError ELSE Err("BadArgument", <<>>),
             connected,
             IF xo = "SpawnFailed" THEN <<>>
             ELSE <<Call("exec", to_string(args[1]), <<>>, xo)>>,
             variables)

execute_function(name, args, fr, uo, xo) ==
    CASE name = "echo" -> execute_echo(args)
      [] name = "upload" -> execute_upload(args, fr, uo)
      [] name = "exec" -> execute_exec(args, xo)
      [] OTHER -> Res(FALSE, Err("UnknownFunction", <<>>), connected, <<>>, variables)

\* Statement::FnCall: the arguments, then call_builtin_function
execute_fncall(name, args, fr, uo, xo) ==
    LET dst_args == EvaluateAll(args, variables)
    IN  IF ~dst_args.ok THEN Res(FALSE, dst_args.err, connected, <<>>, variables)
        ELSE execute_function(name, dst_args.vals, fr, uo, xo)

---------------------------------------------------------------------------
(* The scripts the interpreter is run on, as the parser yields them (an    *)
(* Assign, a call and a loop leave their newline to an EmptyLine)          *)

CliTarget == <<"c", "@", "h">>
ScriptTarget == <<"s", "@", "h">>
EnvTarget == <<"e", "@", "h">>

Str(cs) == LiteralE(StringV(cs))
Num(i) == LiteralE(IntegerV(i))

\* let target = "s@h" / | e
ProgTargetVar ==
    <<Assign("target", Str(ScriptTarget)), EmptyLine, RemoteSingle(<<" ", "e">>)>>

\* | e / let target = "s@h" / | f
ProgTargetLate ==
    <<RemoteSingle(<<" ", "e">>), Assign("target", Str(ScriptTarget)), EmptyLine,
      RemoteSingle(<<" ", "f">>)>>

\* | e / | f
ProgPlain == <<RemoteSingle(<<" ", "e">>), RemoteSingle(<<" ", "f">>)>>

\* upload(<<<T d T>>> , "/p") / | e
ProgUploadFirst ==
    <<FnCall("upload", <<HereDocE(<<" ", "d", " ">>), Str(<<"/", "p">>)>>),
      EmptyLine, RemoteSingle(<<" ", "e">>)>>

\* | e / upload("f", "/p")
ProgUploadFile ==
    <<RemoteSingle(<<" ", "e">>),
      FnCall("upload", <<Str(<<"f">>), Str(<<"/", "p">>)>>), EmptyLine>>

\* # c / (empty) / let x = 1 / echo($x, "m") / exec("c") / for v in [1, 2] { echo($v) }
ProgLocal ==
    <<Comment, EmptyLine, Assign("x", Num(1)), EmptyLine,
      FnCall("echo", <<VariableE("x"), Str(<<"m">>)>>), EmptyLine,
      FnCall("exec", <<Str(<<"c">>)>>), EmptyLine,
      ForLoop("v", ArrayE(<<Num(1), Num(2)>>),
              <<EmptyLine, FnCall("echo", <<VariableE("v")>>), EmptyLine>>),
      EmptyLine>>

\* let a = [1, 2] / for v in $a { for w in $a { | {{ v }}{{ w }} } exec("c") } / | z
ProgNested ==
    <<Assign("a", ArrayE(<<Num(1), Num(2)>>)), EmptyLine,
      ForLoop("v", VariableE("a"),
              <<EmptyLine,
                ForLoop("w", VariableE("a"),
                        <<EmptyLine,
                          RemoteSingle(<<" ", "{", "{", " ", "v", " ", "}", "}",
                                         "{", "{", " ", "w", " ", "}", "}">>)>>),
                EmptyLine,
                FnCall("exec", <<Str(<<"c">>)>>), EmptyLine>>),
      EmptyLine, RemoteSingle(<<" ", "z">>)>>

\* + / | a / | b / +
ProgBlock == <<Remote(<<<<" ", "a">>, <<" ", "b">>>>)>>

\* for x in 5 { | e } / | f
ProgBadLoop ==
    <<ForLoop("x", Num(5), <<EmptyLine, RemoteSingle(<<" ", "e">>)>>), EmptyLine,
      RemoteSingle(<<" ", "f">>)>>

\* let y = $m / | e
ProgUndef == <<Assign("y", VariableE("m")), EmptyLine, RemoteSingle(<<" ", "e">>)>>

\* upload(5, "/p") / | e
ProgBadUpload ==
    <<FnCall("upload", <<Num(5), Str(<<"/", "p">>)>>), EmptyLine,
      RemoteSingle(<<" ", "e">>)>>

\* exec("a", "b") / echo("m")
ProgArity ==
    <<FnCall("exec", <<Str(<<"a">>), Str(<<"b">>)>>), EmptyLine,
      FnCall("echo", <<Str(<<"m">>)>>), EmptyLine>>

\* foo(1) / echo("m")
ProgUnknown ==
    <<FnCall("foo", <<Num(1)>>), EmptyLine, FnCall("echo", <<Str(<<"m">>)>>),
      EmptyLine>>

\* let n = "w" / let g = "h {{ n }}" / | {{ g }}{{ m }} / | {{
ProgTemplate ==
    <<Assign("n", Str(<<"w">>)), EmptyLine,
      Assign("g", Str(<<"h", " ", "{", "{", " ", "n", " ", "}", "}">>)), EmptyLine,
      RemoteSingle(<<" ", "{", "{", " ", "g", " ", "}", "}",
                     "{", "{", " ", "m", " ", "}", "}">>),
      RemoteSingle(<<" ", "{", "{">>)>>

\* let g = "h {{ q }}" / echo($g)
ProgUnboundAssign ==
    <<Assign("g", Str(<<"h", " ", "{", "{", " ", "q", " ", "}", "}">>)), EmptyLine,
      FnCall("echo", <<VariableE("g")>>), EmptyLine>>

\* echo("m", $m) / | e
ProgUndefArg ==
    <<FnCall("echo", <<Str(<<"m">>), VariableE("m")>>), EmptyLine,
      RemoteSingle(<<" ", "e">>)>>

\* let a = [1, $m] / | e
ProgUndefElem ==
    <<Assign("a", ArrayE(<<Num(1), VariableE("m")>>)), EmptyLine,
      RemoteSingle(<<" ", "e">>)>>

\* let k = <<<T a(newline)T>>> (the newline after the tag is taken by the
\* heredoc) / | e / + / | a / | / +
ProgConst ==
    <<Assign("k", HereDocE(<<" ", "a", "\n">>)), RemoteSingle(<<" ", "e">>),
      Remote(<<<<" ", "a">>, <<>>>>)>>

\* let v = 9 / for v in [1, 2] { let w = $v } / | {{ v }}{{ w }} / let v = 5
ProgShadow ==
    <<Assign("v", Num(9)), EmptyLine,
      ForLoop("v", ArrayE(<<Num(1), Num(2)>>),
              <<EmptyLine, Assign("w", VariableE("v")), EmptyLine>>),
      EmptyLine,
      RemoteSingle(<<" ", "{", "{", " ", "v", " ", "}", "}", "{", "{", " ",
      "w", " ", "}", "}">>),
      Assign("v", Num(5)), EmptyLine>>

\* let n = "w" / let g = "h {{ n }}{{ q }}" / | {{ g }} / let n = "z" /
\* let q = "y" / | {{ g }}{{ n }}
ProgReassign ==
    <<Assign("n", Str(<<"w">>)), EmptyLine,
      Assign("g", Str(<<"h", " ", "{", "{", " ", "n", " ", "}", "}", "{",
      "{", " ", "q", " ", "}", "}">>)), EmptyLine,
      RemoteSingle(<<" ", "{", "{", " ", "g", " ", "}", "}">>),
      Assign("n", Str(<<"z">>)), EmptyLine,
      Assign("q", Str(<<"y">>)), EmptyLine,
      RemoteSingle(<<" ", "{", "{", " ", "g", " ", "}", "}", "{", "{", " ",
      "n", " ", "}", "}">>)>>

\* | {{ / | e
ProgBadFirst ==
    <<RemoteSingle(<<" ", "{", "{">>), RemoteSingle(<<" ", "e">>)>>

\* a right-hand side of each kind that fails to evaluate: an unbound
\* variable, a string and a heredoc whose template is malformed, an array
\* with an unbound element, an array with a malformed string after a good
\* element
FailingExprs ==
    <<VariableE("m"), Str(<<"{", "{">>), HereDocE(<<" ", "{", "{", " ">>),
      ArrayE(<<Num(1), VariableE("m")>>),
      ArrayE(<<Str(<<"a">>), Str(<<"{", "{">>)>>)>>

\* let n = "w" / [let y = 1 /] let y = ... / | e
ProgFailedAssign(bound, expr) ==
    <<Assign("n", Str(<<"w">>)), EmptyLine>>
        \o (IF bound THEN <<Assign("y", Num(1)), EmptyLine>> ELSE <<>>)
        \o <<Assign("y", expr), EmptyLine, RemoteSingle(<<" ", "e">>)>>

\* what the body of ProgRebind can assign to the variable it loops over
RebindArrays ==
    <<ArrayE(<<>>), ArrayE(<<Num(7)>>), ArrayE(<<Num(7), Num(8), Num(9)>>),
      Num(3)>>

VText == <<" ", "{", "{", " ", "v", " ", "}", "}">>

\* let a = [1, 2] / for v in $a { | {{ v }} / let a = ... / let v = 5 /
\* | {{ v }} } / | {{ v }}
ProgRebind(expr) ==
    <<Assign("a", ArrayE(<<Num(1), Num(2)>>)), EmptyLine,
      ForLoop("v", VariableE("a"),
              <<EmptyLine, RemoteSingle(VText), Assign("a", expr), EmptyLine,
                Assign("v", Num(5)), EmptyLine, RemoteSingle(VText)>>),
      EmptyLine, RemoteSingle(VText)>>

FixedPrograms ==
    <<ProgTargetVar, ProgTargetLate, ProgPlain, ProgUploadFirst, ProgUploadFile,
      ProgLocal, ProgNested, ProgBlock, ProgBadLoop, ProgUndef, ProgBadUpload,
      ProgArity, ProgUnknown, ProgTemplate, ProgUnboundAssign, ProgUndefArg,
      ProgUndefElem, ProgConst, ProgShadow, ProgReassign, ProgBadFirst>>

\* the longest array a script loops over
MaxLoopLen == 3

LoopElems == {StringV(<<"x">>), StringV(<<"y", "z">>), IntegerV(70)}

RECURSIVE SeqsUpTo(_, _)
\* the sequences over S of length at most n
SeqsUpTo(S, n) ==
    IF n = 0 THEN {<<>>}
    ELSE LET shorter == SeqsUpTo(S, n - 1)
         IN  shorter \cup {Append(q, x) : q \in shorter, x \in S}

LoopText == <<"e", " ", "{", "{", " ", "v", " ", "}", "}">>

\* let a = [...] / for v in $a { |e {{ v }} }
ProgLoop(elems) ==
    <<Assign("a", ArrayE([i \in 1..Len(elems) |-> LiteralE(elems[i])])), EmptyLine,
      ForLoop("v", VariableE("a"), <<EmptyLine, RemoteSingle(LoopText)>>),
      EmptyLine>>

IsLoopProgram ==
    /\ Len(script) = 4
    /\ script[3].s = "ForLoop"
    /\ script[3].body = <<EmptyLine, RemoteSingle(LoopText)>>

\* the values of the array ProgLoop loops over
LoopArray == [i \in 1..Len(script[1].expr.v) |-> script[1].expr.v[i].v]

\* the most arguments a call is given
MaxArgs == 3

\* an argument of each kind the parser yields
ArgExprs ==
    <<Num(5), LiteralE(BoolV(TRUE)), Str(<<"f">>), HereDocE(<<"d">>),
      ArrayE(<<Num(1)>>)>>

\* the argument lists of up to MaxArgs of these, given by their indices
ArgLists == SeqsUpTo(1..Len(ArgExprs), MaxArgs)
ArgsAt(ixs) == [i \in 1..Len(ixs) |-> ArgExprs[ixs[i]]]

CheckedFunctions == {"exec", "upload"}

\* name(args...) / | e
ProgCall(name, args) ==
    <<FnCall(name, args), EmptyLine, RemoteSingle(<<" ", "e">>)>>

\* what a script loops over: a literal of each kind, a variable bound to a
\* String or to an Array, an unbound variable
IterableExprs ==
    <<Num(5), LiteralE(BoolV(FALSE)), Str(<<"f">>), HereDocE(<<"d">>),
      VariableE("z"), VariableE("a"), VariableE("m")>>

\* let z = "q" / let a = [1] / for x in ... { | e } / | f
ProgLoopOver(expr) ==
    <<Assign("z", Str(<<"q">>)), EmptyLine,
      Assign("a", ArrayE(<<Num(1)>>)), EmptyLine,
      ForLoop("x", expr, <<EmptyLine, RemoteSingle(<<" ", "e">>)>>), EmptyLine,
      RemoteSingle(<<" ", "f">>)>>

---------------------------------------------------------------------------
(* ScriptContext::run and execute_statement.  The recursion of             *)
(* execute_statement over loop bodies is a stack of frames: the statements *)
(* being executed, the index of the next one and, for a loop body, the     *)
(* loop variable, the array and the number of elements bound so far.       *)

Frame(stmts, pc, loop, var, items, idx) ==
    [stmts |-> stmts, pc |-> pc, loop |-> loop, var |-> var, items |-> items,
     idx |-> idx]

Top == stack[Len(stack)]
Running == status = "running" /\ stack # <<>>
AtStatement == Running /\ Top.pc <= Len(Top.stmts)
AtEnd == Running /\ Top.pc > Len(Top.stmts)
Cur == Top.stmts[Top.pc]
Advanced == [stack EXCEPT ![Len(stack)].pc = @ + 1]

\* (variant: a failed statement is reported and the next one still runs)
Apply_continue(res) ==
    /\ connected' = res.conn
    /\ trace' = trace \o res.calls
    /\ variables' = res.env
    /\ stack' = Advanced
    /\ error' = IF res.ok THEN error ELSE res.err
    /\ UNCHANGED <<target, script, debug, printed, status>>

\* the `?` of run and execute_statement: an error ends the run, Ok goes on
\* to the next statement
Apply(res) ==
    /\ connected' = res.conn
    /\ trace' = trace \o res.calls
    /\ variables' = res.env
    /\ IF res.ok
       THEN stack' = Advanced /\ UNCHANGED <<status, error>>
       ELSE stack' = <<>> /\ status' = "err" /\ error' = res.err
    /\ UNCHANGED <<target, script, debug, printed>>

\* main.rs: load_env is called, if at all, before run
EnvFile == [n \in {"target"} |-> EnvTarget]

load_env(env, file) ==
    [n \in DOMAIN env \cup DOMAIN file |->
        IF n \in DOMAIN file THEN StringV(file[n]) ELSE env[n]]

LoadEnv ==
    /\ status = "new"
    /\ variables = <<>>
    /\ variables' = load_env(variables, EnvFile)
    /\ UNCHANGED <<target, connected, script, debug, stack, status, error, trace,
                   printed>>
    /\ UNCHANGED notCtx

\* run, up to the loop over the statements: the text is parsed and, with
\* the debug flag, the statements are listed
StartRun ==
    /\ status = "new"
    /\ status' = "running"
    /\ printed' = debug
    /\ stack' = <<Frame(script, 1, FALSE, "", <<>>, 0)>>
    /\ UNCHANGED <<target, variables, connected, script, debug, error, trace>>
    /\ UNCHANGED notCtx

ExecComment ==
    /\ AtStatement /\ Cur.s = "Comment"
    /\ Apply(Res(TRUE, NoError, connected, <<>>, variables))
    /\ UNCHANGED notCtx

ExecEmptyLine ==
    /\ AtStatement /\ Cur.s = "EmptyLine"
    /\ Apply(Res(TRUE, NoError, connected, <<>>, variables))
    /\ UNCHANGED notCtx

ExecAssign ==
    /\ AtStatement /\ Cur.s = "Assign"
    /\ Apply(execute_assign(Cur.name, Cur.expr))
    /\ UNCHANGED notCtx

ExecRemoteSingle ==
    /\ AtStatement /\ Cur.s = "RemoteSingle"
    /\ \E co \in ConnectOutcomes, ro \in RunOutcomes :
          Apply(execute_remote(Cur.text, co, ro))
    /\ UNCHANGED notCtx

ExecRemote ==
    /\ AtStatement /\ Cur.s = "Remote"
    /\ \E co \in ConnectOutcomes, ro \in RunOutcomes :
          Apply(execute_remote(JoinLines(Cur.lines), co, ro))
    /\ UNCHANGED notCtx

ExecFnCall ==
    /\ AtStatement /\ Cur.s = "FnCall"
    /\ \E fr \in FileReads, uo \in UploadOutcomes, xo \in ExecOutcomes :
          Apply(execute_fncall(Cur.name, Cur.args, fr, uo, xo))
    /\ UNCHANGED notCtx

\* (variant: a value that is no array is looped over as its only element)
loop_items_single(expr, env) ==
    LET literal == evaluate(expr, env)
    IN  IF ~literal.ok THEN [ok |-> FALSE, err |-> literal.err, items |-> <<>>]
        ELSE IF literal.val.tag # "Array"
        THEN [ok |-> TRUE, err |-> NoError, items |-> <<literal.val>>]
        ELSE [ok |-> TRUE, err |-> NoError, items |-> literal.val.v]

\* Statement::ForLoop, up to the loop over the elements: [ok, err, items]
loop_items(expr, env) ==
    LET literal == evaluate(expr, env)
    IN  IF ~literal.ok THEN [ok |-> FALSE, err |-> literal.err, items |-> <<>>]
        ELSE IF literal.val.tag # "Array"
        THEN [ok |-> FALSE, err |-> Err("IterateOverArray", <<>>), items |-> <<>>]
        ELSE [ok |-> TRUE, err |-> NoError, items |-> literal.val.v]

\* the ForLoop statement whose body is the frame on top
LoopStmt == stack[Len(stack) - 1].stmts[stack[Len(stack) - 1].pc]

\* (variant: the iterable is evaluated again each time the loop asks for its
\* elements)
loop_elements_live(items) ==
    LET it == loop_items(LoopStmt.expr, variables)
    IN  IF it.ok THEN it.items ELSE items

\* `for literal in literals`: the loop goes over the array that was evaluated
\* before its first iteration, which it owns
loop_elements(items) == items

ExecForLoop ==
    /\ AtStatement /\ Cur.s = "ForLoop"
    /\ LET it == loop_items(Cur.expr, variables)
       IN  IF it.ok
           THEN /\ stack' = Append(stack, Frame(Cur.body, Len(Cur.body) + 1, TRUE,
                                                 Cur.var, it.items, 0))
                /\ UNCHANGED <<status, error>>
           ELSE stack' = <<>> /\ status' = "err" /\ error' = it.err
    /\ UNCHANGED <<target, variables, connected, script, debug, trace, printed>>
    /\ UNCHANGED notCtx

\* (variant: the elements are taken from the end)
next_element_reversed(items, done) == items[Len(items) - done]

\* the element the loop binds when `done` elements have been bound
next_element(items, done) == items[done + 1]

\* `for literal in literals`: the next element is bound and the body starts
LoopBind ==
    /\ AtEnd /\ Top.loop /\ Top.idx < Len(loop_elements(Top.items))
    /\ variables' = Insert(variables, Top.var,
                           next_element(loop_elements(Top.items), Top.idx))
    /\ stack' = [stack EXCEPT ![Len(stack)].idx = @ + 1, ![Len(stack)].pc = 1]
    /\ UNCHANGED <<target, connected, script, debug, status, error, trace, printed>>
    /\ UNCHANGED notCtx

\* (variant: the loop variable is local to the loop and unbound at its end)
LoopExit_scoped ==
    /\ AtEnd /\ Top.loop /\ Top.idx = Len(loop_elements(Top.items))
    /\ LET outer == SubSeq(stack, 1, Len(stack) - 1)
       IN  stack' = [outer EXCEPT ![Len(outer)].pc = @ + 1]
    /\ variables' = [n \in DOMAIN variables \ {Top.var} |-> variables[n]]
    /\ UNCHANGED <<target, connected, script, debug, status, error, trace,
                   printed>>
    /\ UNCHANGED notCtx

\* the elements are exhausted: the ForLoop statement returns Ok
LoopExit ==
    /\ AtEnd /\ Top.loop /\ Top.idx = Len(loop_elements(Top.items))
    /\ LET outer == SubSeq(stack, 1, Len(stack) - 1)
       IN  stack' = [outer EXCEPT ![Len(outer)].pc = @ + 1]
    /\ UNCHANGED <<target, variables, connected, script, debug, status, error,
                   trace, printed>>
    /\ UNCHANGED notCtx

\* run returns Ok(())
RunReturn ==
    /\ AtEnd /\ ~Top.loop
    /\ status' = "ok"
    /\ stack' = <<>>
    /\ UNCHANGED <<target, variables, connected, script, debug, error, trace,
                   printed>>
    /\ UNCHANGED notCtx

\* main.rs:69: what main returns after run returned `ok`
main_result(ok) == "success"

\* main.rs:61-69: the outcome of run is logged and main returns
MainExit ==
    /\ status \in {"ok", "err"}
    /\ exit_code = "none"
    /\ reported' = IF status = "ok" THEN "completed" ELSE "failed"
    /\ exit_code' = main_result(status = "ok")
    /\ UNCHANGED <<ctxVars, clientVars, procVars, runVars, upVars, connVars,
                   parseVars>>

\* ScriptContext::new
InitCtx ==
    /\ target \in {None, Some(CliTarget)}
    /\ \/ \E i \in 1..Len(FixedPrograms) : script = FixedPrograms[i]
       \/ \E elems \in SeqsUpTo(LoopElems, MaxLoopLen) : script = ProgLoop(elems)
       \/ \E name \in CheckedFunctions, ixs \in ArgLists :
             script = ProgCall(name, ArgsAt(ixs))
       \/ \E i \in 1..Len(IterableExprs) : script = ProgLoopOver(IterableExprs[i])
       \/ \E i \in 1..Len(RebindArrays) : script = ProgRebind(RebindArrays[i])
       \/ \E bound \in BOOLEAN, i \in 1..Len(FailingExprs) :
             script = ProgFailedAssign(bound, FailingExprs[i])
    /\ debug \in BOOLEAN
    /\ variables = <<>>
    /\ connected = FALSE
    /\ stack = <<>>
    /\ status = "new"
    /\ error = NoError
    /\ trace = <<>>
    /\ printed = FALSE

\* SshClient::new, here without sudo
ClientIdle ==
    /\ session = FALSE
    /\ use_sudo = FALSE

\* no run operation of the SSH client is in progress
RunIdle ==
    /\ rpc = "idle"
    /\ remote_exit = 0
    /\ stdoutAll = <<>>
    /\ stderrAll = <<>>
    /\ blocking = TRUE
    /\ remoteFile = "absent"
    /\ guard = FALSE
    /\ unlinks = <<>>
    /\ execCmd = <<>>
    /\ stdoutSrc = <<>>
    /\ stderrSrc = <<>>
    /\ stdout_buf = <<>>
    /\ stderr_buf = <<>>
    /\ stdout_done = FALSE
    /\ stderr_done = FALSE
    /\ made_progress = FALSE
    /\ slept = FALSE
    /\ console = <<>>
    /\ rresult = "none"

\* no upload operation of the SSH client is in progress
UpIdle ==
    /\ upc = "idle"
    /\ upload_content = <<>>
    /\ files = <<>>
    /\ temp_guard = FALSE
    /\ temp_unlinks = <<>>
    /\ mv = "none"
    /\ uresult = "none"

\* no connect operation of the SSH client is in progress
ConnIdle ==
    /\ cpc = "idle"
    /\ conn_target = <<>>
    /\ identities = None
    /\ tried = <<>>
    /\ authenticated = FALSE
    /\ cresult = "none"

\* no text is being parsed
ParseIdle ==
    /\ contents = <<>>
    /\ pstatus = "idle"
    /\ ast = <<>>
    /\ perror = <<>>

\* main has not returned
MainIdle ==
    /\ reported = "none"
    /\ exit_code = "none"

Init ==
    InitCtx /\ MainIdle /\ ClientIdle /\ RunIdle /\ UpIdle /\ ConnIdle /\ ParseIdle

Next ==
    \/ LoadEnv
    \/ StartRun
    \/ ExecComment
    \/ ExecEmptyLine
    \/ ExecAssign
    \/ ExecRemoteSingle
    \/ ExecRemote
    \/ ExecFnCall
    \/ ExecForLoop
    \/ LoopBind
    \/ LoopExit
    \/ RunReturn
    \/ MainExit

\* the interpreter over an abstract executor
Spec == Init /\ [][Next]_vars

---------------------------------------------------------------------------
(* SshClient::run_impl (sshclient.rs:140-248), one action per fallible     *)
(* call or loop step.  The remote process delivers the bytes of stdoutSrc  *)
(* and stderrSrc; a non-blocking read takes some of the bytes that are     *)
(* left, finds none ready, meets end of stream once all were taken, or     *)
(* fails.  Returning from run_impl drops its locals: the guard, if it      *)
(* exists, issues its unlink then.                                         *)

\* the longest output of a stream
MaxOut == 2
\* the length of the read buffer (`buff`, 1024 bytes in the program)
BuffLen == 2

\* "~" stands for a byte that is no valid UTF-8 (such as 0xFF), "?" for the
\* replacement character U+FFFD
BadByte == "~"
Replacement == "?"

OutputBytes == {"a", "\n", BadByte}

\* the exit statuses of the remote process: success and a failure
ExitStatuses == {0, 1}

RemotePath == <<"/", "t", "m", "p", "/", "s">>
Bash == <<"/", "b", "i", "n", "/", "b", "a", "s", "h", " ">>
Sudo == <<"s", "u", "d", "o", " ">>

Min(a, b) == IF a < b THEN a ELSE b

RECURSIVE Position(_, _)
\* the index of the first b in buf, 0 when there is none
Position(buf, b) ==
    IF buf = <<>> THEN 0
    ELSE IF Head(buf) = b THEN 1
    ELSE LET p == Position(Tail(buf), b) IN IF p = 0 THEN 0 ELSE p + 1

RECURSIVE DrainLines(_)
\* `while let Some(pos) = buf.position('\n') { buf.drain(..=pos) ... }`:
\* the lines drained, each with its newline, and what the buffer keeps
DrainLines(buf) ==
    LET pos == Position(buf, "\n")
    IN  IF pos = 0 THEN [lines |-> <<>>, rest |-> buf]
        ELSE LET more == DrainLines(SubSeq(buf, pos + 1, Len(buf)))
             IN  [lines |-> <<SubSeq(buf, 1, pos)>> \o more.lines, rest |-> more.rest]

\* (variant: the bytes are printed as they are)
from_utf8_exact(bytes) == bytes

\* String::from_utf8_lossy: what is no UTF-8 becomes U+FFFD
from_utf8_lossy(bytes) ==
    [i \in 1..Len(bytes) |-> IF bytes[i] = BadByte THEN Replacement ELSE bytes[i]]

\* lines 190-192 and 209-210: each drained line is decoded and printed
Printed(stream, lines) ==
    [i \in 1..Len(lines) |->
        [stream |-> stream, text |-> from_utf8_lossy(lines[i])]]

\* (variant: the guard forgets its file)
drop_guard_forget(g, b) == <<>>

\* impl Drop for RemoteTempFile: the unlink requests issued when run_impl's
\* scope ends, with the session's blocking mode at that moment
drop_guard(g, b) ==
    IF g THEN <<[path |-> RemotePath, blocking |-> b]>> ELSE <<>>

\* what an unlink request can come to: the file is removed, the request
\* fails, or (on a non-blocking session) it returns before it completed and
\* the file is removed or not
UnlinkEffects(b) ==
    IF b THEN {"removed", "failed"} ELSE {"removed", "failed", "wouldblock"}

\* run_impl returns `result`; its locals are dropped
Return(result) ==
    /\ rpc' = "done"
    /\ rresult' = result
    /\ guard' = FALSE
    /\ unlinks' = unlinks \o drop_guard(guard, blocking)
    /\ IF drop_guard(guard, blocking) = <<>> THEN UNCHANGED remoteFile
       ELSE \E eff \in UnlinkEffects(blocking) :
               remoteFile' = IF eff = "removed" THEN "absent" ELSE remoteFile

\* line 142: the session must exist
RunEntry ==
    /\ rpc = "entry"
    /\ IF session
       THEN rpc' = "sftp" /\ UNCHANGED <<rresult, guard, unlinks, remoteFile>>
       ELSE Return("no_session")
    /\ UNCHANGED <<session, use_sudo, blocking, execCmd, stdoutSrc, stderrSrc,
                   stdout_buf, stderr_buf, stdout_done, stderr_done,
                   made_progress, slept, console>>
    /\ UNCHANGED notRun

\* line 147: session.sftp()?
RunSftp ==
    /\ rpc = "sftp"
    /\ \/ rpc' = "create" /\ UNCHANGED <<rresult, guard, unlinks, remoteFile>>
       \/ Return("sftp")
    /\ UNCHANGED <<session, use_sudo, blocking, execCmd, stdoutSrc, stderrSrc,
                   stdout_buf, stderr_buf, stdout_done, stderr_done,
                   made_progress, slept, console>>
    /\ UNCHANGED notRun

\* line 149: sftp.create(path)?
RunCreate ==
    /\ rpc = "create"
    /\ \/ rpc' = "write" /\ remoteFile' = "empty"
          /\ UNCHANGED <<rresult, guard, unlinks>>
       \/ Return("create")
    /\ UNCHANGED <<session, use_sudo, blocking, execCmd, stdoutSrc, stderrSrc,
                   stdout_buf, stderr_buf, stdout_done, stderr_done,
                   made_progress, slept, console>>
    /\ UNCHANGED notRun

\* line 150: file.write_all(script)?  A failed write leaves the file with
\* none or a part of the script.
RunWrite ==
    /\ rpc = "write"
    /\ \/ rpc' = "close" /\ remoteFile' = "full"
          /\ UNCHANGED <<rresult, guard, unlinks>>
       \/ \E left \in {"empty", "partial"} :
             /\ rpc' = "done" /\ rresult' = "write" /\ guard' = FALSE
             /\ unlinks' = unlinks \o drop_guard(guard, blocking)
             /\ remoteFile' = left
    /\ UNCHANGED <<session, use_sudo, blocking, execCmd, stdoutSrc, stderrSrc,
                   stdout_buf, stderr_buf, stdout_done, stderr_done,
                   made_progress, slept, console>>
    /\ UNCHANGED notRun

\* line 151: file.close()?
RunClose ==
    /\ rpc = "close"
    /\ \/ rpc' = "guard" /\ UNCHANGED <<rresult, guard, unlinks, remoteFile>>
       \/ Return("close")
    /\ UNCHANGED <<session, use_sudo, blocking, execCmd, stdoutSrc, stderrSrc,
                   stdout_buf, stderr_buf, stdout_done, stderr_done,
                   made_progress, slept, console>>
    /\ UNCHANGED notRun

\* line 154: let _remote_file = RemoteTempFile::new(...)
RunGuard ==
    /\ rpc = "guard"
    /\ guard' = TRUE
    /\ rpc' = "channel"
    /\ UNCHANGED <<session, use_sudo, blocking, remoteFile, unlinks, execCmd,
                   stdoutSrc, stderrSrc, stdout_buf, stderr_buf, stdout_done,
                   stderr_done, made_progress, slept, console, rresult>>
    /\ UNCHANGED notRun

\* line 157: session.channel_session()?
RunChannel ==
    /\ rpc = "channel"
    /\ \/ rpc' = "exec" /\ UNCHANGED <<rresult, guard, unlinks, remoteFile>>
       \/ Return("channel")
    /\ UNCHANGED <<session, use_sudo, blocking, execCmd, stdoutSrc, stderrSrc,
                   stdout_buf, stderr_buf, stdout_done, stderr_done,
                   made_progress, slept, console>>
    /\ UNCHANGED notRun

\* the command line of lines 158-162
exec_command(sudo) ==
    IF sudo THEN Sudo \o Bash \o RemotePath ELSE Bash \o RemotePath

\* lines 158-162: channel.exec(...)?
RunExec ==
    /\ rpc = "exec"
    /\ execCmd' = exec_command(use_sudo)
    /\ \/ rpc' = "nonblock" /\ UNCHANGED <<rresult, guard, unlinks, remoteFile>>
       \/ Return("exec")
    /\ UNCHANGED <<session, use_sudo, blocking, stdoutSrc, stderrSrc,
                   stdout_buf, stderr_buf, stdout_done, stderr_done,
                   made_progress, slept, console>>
    /\ UNCHANGED notRun

\* lines 169-176: set_blocking(false) and the loop's locals
RunSetNonBlocking ==
    /\ rpc = "nonblock"
    /\ blocking' = FALSE
    /\ stdout_buf' = <<>> /\ stderr_buf' = <<>>
    /\ stdout_done' = FALSE /\ stderr_done' = FALSE
    /\ rpc' = "loop"
    /\ UNCHANGED <<session, use_sudo, remoteFile, guard, unlinks, execCmd,
                   stdoutSrc, stderrSrc, made_progress, slept, console, rresult>>
    /\ UNCHANGED notRun

\* line 179: an iteration starts
LoopTop ==
    /\ rpc = "loop"
    /\ made_progress' = FALSE
    /\ slept' = FALSE
    /\ rpc' = "read_stdout"
    /\ UNCHANGED <<session, use_sudo, blocking, remoteFile, guard, unlinks,
                   execCmd, stdoutSrc, stderrSrc, stdout_buf, stderr_buf,
                   stdout_done, stderr_done, console, rresult>>
    /\ UNCHANGED notRun

\* the results channel.read can have on a stream with `src` still to come
ReadResults(src) ==
    {[kind |-> "data", n |-> n] : n \in 1..Min(BuffLen, Len(src))}
        \cup {[kind |-> "wouldblock", n |-> 0], [kind |-> "error", n |-> 0]}
        \cup (IF src = <<>> THEN {[kind |-> "eof", n |-> 0]} ELSE {})

\* lines 182-198
ReadStdout ==
    /\ rpc = "read_stdout"
    /\ IF stdout_done
       THEN /\ rpc' = "read_stderr"
            /\ UNCHANGED <<stdoutSrc, stdout_buf, stdout_done, made_progress,
                           console, rresult, guard, unlinks, remoteFile>>
       ELSE \E r \in ReadResults(stdoutSrc) :
               CASE r.kind = "eof" ->
                       /\ stdout_done' = TRUE
                       /\ rpc' = "read_stderr"
                       /\ UNCHANGED <<stdoutSrc, stdout_buf, made_progress, console,
                                      rresult, guard, unlinks, remoteFile>>
                 [] r.kind = "data" ->
                       LET d == DrainLines(stdout_buf \o SubSeq(stdoutSrc, 1, r.n))
                       IN  /\ made_progress' = TRUE
                           /\ stdoutSrc' = SubSeq(stdoutSrc, r.n + 1, Len(stdoutSrc))
                           /\ stdout_buf' = d.rest
                           /\ console' = console \o Printed("stdout", d.lines)
                           /\ rpc' = "read_stderr"
                           /\ UNCHANGED <<stdout_done, rresult, guard, unlinks,
                                          remoteFile>>
                 [] r.kind = "wouldblock" ->
                       /\ rpc' = "read_stderr"
                       /\ UNCHANGED <<stdoutSrc, stdout_buf, stdout_done,
                                      made_progress, console, rresult, guard,
                                      unlinks, remoteFile>>
                 [] r.kind = "error" ->
                       /\ Return("read_stdout")
                       /\ UNCHANGED <<stdoutSrc, stdout_buf, stdout_done,
                                      made_progress, console>>
    /\ UNCHANGED <<session, use_sudo, blocking, execCmd, stderrSrc, stderr_buf,
                   stderr_done, slept>>
    /\ UNCHANGED notRun

\* lines 201-216
ReadStderr ==
    /\ rpc = "read_stderr"
    /\ IF stderr_done
       THEN /\ rpc' = "check"
            /\ UNCHANGED <<stderrSrc, stderr_buf, stderr_done, made_progress,
                           console, rresult, guard, unlinks, remoteFile>>
       ELSE \E r \in ReadResults(stderrSrc) :
               CASE r.kind = "eof" ->
                       /\ stderr_done' = TRUE
                       /\ rpc' = "check"
                       /\ UNCHANGED <<stderrSrc, stderr_buf, made_progress, console,
                                      rresult, guard, unlinks, remoteFile>>
                 [] r.kind = "data" ->
                       LET d == DrainLines(stderr_buf \o SubSeq(stderrSrc, 1, r.n))
                       IN  /\ made_progress' = TRUE
                           /\ stderrSrc' = SubSeq(stderrSrc, r.n + 1, Len(stderrSrc))
                           /\ stderr_buf' = d.rest
                           /\ console' = console \o Printed("stderr", d.lines)
                           /\ rpc' = "check"
                           /\ UNCHANGED <<stderr_done, rresult, guard, unlinks,
                                          remoteFile>>
                 [] r.kind = "wouldblock" ->
                       /\ rpc' = "check"
                       /\ UNCHANGED <<stderrSrc, stderr_buf, stderr_done,
                                      made_progress, console, rresult, guard,
                                      unlinks, remoteFile>>
                 [] r.kind = "error" ->
                       /\ Return("read_stderr")
                       /\ UNCHANGED <<stderrSrc, stderr_buf, stderr_done,
                                      made_progress, console>>
    /\ UNCHANGED <<session, use_sudo, blocking, execCmd, stdoutSrc, stdout_buf,
                   stdout_done, slept>>
    /\ UNCHANGED notRun

\* (variant: the loop is left as soon as one of the streams is at its end)
loop_break_either(out_done, err_done) == out_done \/ err_done

\* line 218: `if stdout_done && stderr_done { break; }`
loop_break(out_done, err_done) == out_done /\ err_done

\* lines 218-224: leave the loop, or sleep if nothing was read, and go round
LoopCheck ==
    /\ rpc = "check"
    /\ IF loop_break(stdout_done, stderr_done)
       THEN rpc' = "flush" /\ UNCHANGED slept
       ELSE rpc' = "loop" /\ slept' = ~made_progress
    /\ UNCHANGED <<session, use_sudo, blocking, remoteFile, guard, unlinks,
                   execCmd, stdoutSrc, stderrSrc, stdout_buf, stderr_buf,
                   stdout_done, stderr_done, made_progress, console, rresult>>
    /\ UNCHANGED notRun

\* (variant: what is left in a buffer at the end is not printed)
Flushed_never(stream, buf) == <<>>

\* what is printed for a buffer left without newline
Flushed(stream, buf) ==
    IF buf = <<>> THEN <<>>
    ELSE <<[stream |-> stream, text |-> from_utf8_lossy(buf)]>>

\* lines 228-239: the remaining content is printed, the session is set back
\* to blocking
RunFlush ==
    /\ rpc = "flush"
    /\ console' = console \o Flushed("stdout", stdout_buf)
                          \o Flushed("stderr", stderr_buf)
    /\ blocking' = TRUE
    /\ rpc' = "return"
    /\ UNCHANGED <<session, use_sudo, remoteFile, guard, unlinks, execCmd,
                   stdoutSrc, stderrSrc, stdout_buf, stderr_buf, stdout_done,
                   stderr_done, made_progress, slept, rresult>>
    /\ UNCHANGED notRun

\* (variant: a non-zero exit status of the remote process fails the run)
run_result_checked(exit) == IF exit = 0 THEN "ok" ELSE "exit_status"

\* lines 241-247: the exit status is not asked for; Ok(())
run_result(exit) == "ok"

\* line 247: Ok(())
RunOk ==
    /\ rpc = "return"
    /\ Return(run_result(remote_exit))
    /\ UNCHANGED <<session, use_sudo, blocking, execCmd, stdoutSrc, stderrSrc,
                   stdout_buf, stderr_buf, stdout_done, stderr_done,
                   made_progress, slept, console>>
    /\ UNCHANGED notRun

\* no script is being interpreted
CtxIdle ==
    /\ target = None
    /\ variables = <<>>
    /\ connected = FALSE
    /\ script = <<>>
    /\ debug = FALSE
    /\ stack = <<>>
    /\ status = "idle"
    /\ error = NoError
    /\ trace = <<>>
    /\ printed = FALSE

\* a call of run on a client that was or was not connected
InitRun ==
    /\ CtxIdle
    /\ MainIdle
    /\ UpIdle
    /\ ConnIdle
    /\ ParseIdle
    /\ remote_exit \in ExitStatuses
    /\ stdoutAll \in SeqsUpTo(OutputBytes, MaxOut)
    /\ stderrAll \in SeqsUpTo(OutputBytes, MaxOut)
    /\ rpc = "entry"
    /\ session \in BOOLEAN
    /\ use_sudo \in BOOLEAN
    /\ blocking = TRUE
    /\ remoteFile = "absent"
    /\ guard = FALSE
    /\ unlinks = <<>>
    /\ execCmd = <<>>
    /\ stdoutSrc = stdoutAll
    /\ stderrSrc = stderrAll
    /\ stdout_buf = <<>>
    /\ stderr_buf = <<>>
    /\ stdout_done = FALSE
    /\ stderr_done = FALSE
    /\ made_progress = FALSE
    /\ slept = FALSE
    /\ console = <<>>
    /\ rresult = "none"

NextRun ==
    \/ RunEntry
    \/ RunSftp
    \/ RunCreate
    \/ RunWrite
    \/ RunClose
    \/ RunGuard
    \/ RunChannel
    \/ RunExec
    \/ RunSetNonBlocking
    \/ LoopTop
    \/ ReadStdout
    \/ ReadStderr
    \/ LoopCheck
    \/ RunFlush
    \/ RunOk

\* one run operation of the SSH client
SpecRun == InitRun /\ [][NextRun]_vars

\* run_impl is sequential code: whenever it has a next step it takes it
SpecRunFair == InitRun /\ [][NextRun]_vars /\ WF_vars(NextRun)

---------------------------------------------------------------------------
(* SshClient::upload_impl (sshclient.rs:250-280), one action per fallible  *)
(* call.  With sudo the bytes are staged in an ephemeral file and a remote *)
(* `sudo mv` is started; channel.exec returns once the server accepted the *)
(* request, and nothing in upload_impl waits for the command to end, so    *)
(* the remote mv is a process of its own.  It is taken to succeed whenever *)
(* the staged file is there when it runs.                                  *)

\* the longest content uploaded
MaxContent == 2

ContentBytes == {"a", "b"}
OldBytes == <<"o">>

TempPath == <<"/", "t", "m", "p", "/", "u">>
DstPath == <<"/", "p">>
Paths == {TempPath, DstPath}

\* the file upload_impl creates and writes
upload_path(sudo) == IF sudo THEN TempPath ELSE DstPath

\* the proper prefixes of bytes
ProperPrefixes(bytes) == {SubSeq(bytes, 1, n) : n \in 0..(Len(bytes) - 1)}

\* impl Drop for RemoteTempFile on the staged file: the unlink removes the
\* file if it is there, or fails; the result is ignored
DropTempFile ==
    IF ~temp_guard THEN UNCHANGED <<files, temp_unlinks, temp_guard>>
    ELSE /\ temp_guard' = FALSE
         /\ IF files[TempPath].some
            THEN \/ /\ files' = [files EXCEPT ![TempPath] = None]
                    /\ temp_unlinks' = Append(temp_unlinks, "removed")
                 \/ /\ temp_unlinks' = Append(temp_unlinks, "failed")
                    /\ UNCHANGED files
            ELSE /\ temp_unlinks' = Append(temp_unlinks, "nofile")
                 /\ UNCHANGED files

\* upload_impl returns Err through `?`; its locals are dropped
UploadFail(step) ==
    /\ upc' = "done"
    /\ uresult' = step
    /\ DropTempFile

\* line 252: the session must exist
UploadEntry ==
    /\ upc = "entry"
    /\ IF session
       THEN upc' = "sftp" /\ UNCHANGED <<uresult, files, temp_unlinks, temp_guard>>
       ELSE UploadFail("no_session")
    /\ UNCHANGED <<upload_content, mv>>
    /\ UNCHANGED notUpload

\* line 253: session.sftp()?
UploadSftp ==
    /\ upc = "sftp"
    /\ \/ upc' = "create" /\ UNCHANGED <<uresult, files, temp_unlinks, temp_guard>>
       \/ UploadFail("sftp")
    /\ UNCHANGED <<upload_content, mv>>
    /\ UNCHANGED notUpload

\* lines 261 and 274: sftp.create(path)? creates or truncates the file
UploadCreate ==
    /\ upc = "create"
    /\ \/ /\ upc' = "write"
          /\ files' = [files EXCEPT ![upload_path(use_sudo)] = Some(<<>>)]
          /\ UNCHANGED <<uresult, temp_unlinks, temp_guard>>
       \/ UploadFail("create")
    /\ UNCHANGED <<upload_content, mv>>
    /\ UNCHANGED notUpload

\* lines 262 and 275: file.write_all(content)?  A failed write leaves a
\* part of the content.
UploadWrite ==
    /\ upc = "write"
    /\ \/ /\ upc' = "close"
          /\ files' = [files EXCEPT ![upload_path(use_sudo)] = Some(upload_content)]
          /\ UNCHANGED <<uresult, temp_unlinks, temp_guard>>
       \/ \E part \in ProperPrefixes(upload_content) :
             /\ upc' = "done"
             /\ uresult' = "write"
             /\ files' = [files EXCEPT ![upload_path(use_sudo)] = Some(part)]
             /\ UNCHANGED <<temp_unlinks, temp_guard>>
    /\ UNCHANGED <<upload_content, mv>>
    /\ UNCHANGED notUpload

\* lines 263 and 276: file.close()?; without sudo the upload is over
UploadClose ==
    /\ upc = "close"
    /\ \/ /\ upc' = IF use_sudo THEN "guard" ELSE "return"
          /\ UNCHANGED <<uresult, files, temp_unlinks, temp_guard>>
       \/ UploadFail("close")
    /\ UNCHANGED <<upload_content, mv>>
    /\ UNCHANGED notUpload

\* line 267: let _remote_temp_file = RemoteTempFile::new(...)
UploadGuard ==
    /\ upc = "guard"
    /\ temp_guard' = TRUE
    /\ upc' = "channel"
    /\ UNCHANGED <<upload_content, files, temp_unlinks, mv, uresult>>
    /\ UNCHANGED notUpload

\* line 269: session.channel_session()?
UploadChannel ==
    /\ upc = "channel"
    /\ \/ upc' = "exec" /\ UNCHANGED <<uresult, files, temp_unlinks, temp_guard>>
       \/ UploadFail("channel")
    /\ UNCHANGED <<upload_content, mv>>
    /\ UNCHANGED notUpload

\* line 270: channel.exec("sudo mv temp dst")? starts the remote command
UploadExec ==
    /\ upc = "exec"
    /\ \/ /\ upc' = "scope_end"
          /\ mv' = "started"
          /\ UNCHANGED <<uresult, files, temp_unlinks, temp_guard>>
       \/ UploadFail("exec") /\ UNCHANGED mv
    /\ UNCHANGED upload_content
    /\ UNCHANGED notUpload

\* line 271: the sudo branch ends; the channel and the guard are dropped
UploadScopeEnd ==
    /\ upc = "scope_end"
    /\ DropTempFile
    /\ upc' = "return"
    /\ UNCHANGED <<upload_content, mv, uresult>>
    /\ UNCHANGED notUpload

\* line 279: Ok(())
UploadOk ==
    /\ upc = "return"
    /\ upc' = "done"
    /\ uresult' = "ok"
    /\ UNCHANGED <<upload_content, files, temp_guard, temp_unlinks, mv>>
    /\ UNCHANGED notUpload

\* the remote `sudo mv temp dst` runs: the staged file becomes the
\* destination, or there is no staged file to move
RemoteMv ==
    /\ mv = "started"
    /\ IF files[TempPath].some
       THEN /\ files' = [files EXCEPT ![DstPath] = files[TempPath],
                                      ![TempPath] = None]
            /\ mv' = "moved"
       ELSE mv' = "nofile" /\ UNCHANGED files
    /\ UNCHANGED <<upc, upload_content, temp_guard, temp_unlinks, uresult>>
    /\ UNCHANGED notUpload

\* a call of upload on a client that was or was not connected; the
\* destination exists already or not
InitUpload ==
    /\ CtxIdle
    /\ MainIdle
    /\ RunIdle
    /\ ConnIdle
    /\ ParseIdle
    /\ session \in BOOLEAN
    /\ use_sudo \in BOOLEAN
    /\ upc = "entry"
    /\ upload_content \in SeqsUpTo(ContentBytes, MaxContent)
    /\ files \in [Paths -> {None, Some(OldBytes)}]
    /\ files[TempPath] = None
    /\ temp_guard = FALSE
    /\ temp_unlinks = <<>>
    /\ mv = "none"
    /\ uresult = "none"

NextUpload ==
    \/ UploadEntry
    \/ UploadSftp
    \/ UploadCreate
    \/ UploadWrite
    \/ UploadClose
    \/ UploadGuard
    \/ UploadChannel
    \/ UploadExec
    \/ UploadScopeEnd
    \/ UploadOk
    \/ RemoteMv

\* one upload operation of the SSH client and the remote command it starts
SpecUpload == InitUpload /\ [][NextUpload]_vars

---------------------------------------------------------------------------
(* The parser (parser.rs), written with the pom combinators.  A parser is  *)
(* applied to the text and a 0-based offset and yields either a value and  *)
(* the offset after it, or pom's error: Mismatch and Conversion carry the  *)
(* offset they arose at, Incomplete carries none.  As in pom, an           *)
(* alternative `a | b` yields b's result when a fails, repeat and list     *)
(* stop at the first failure and drop its error, and a sequence fails with *)
(* the error of its first failing part.  The \uXXXX escapes of string()    *)
(* are left out: no text of the model holds one.                           *)

UpperLetters ==
    {"A", "B", "C", "D", "E", "F", "G", "H", "I", "J", "K", "L", "M", "N", "O",
     "P", "Q", "R", "S", "T", "U", "V", "W", "X", "Y", "Z"}

\* pom::char_class::alpha and alphanum
Alpha == Letters \cup UpperLetters
AlphaNum == Alpha \cup Digits

POk(val, pos) ==
    [ok |-> TRUE, val |-> val, pos |-> pos, kind |-> "none", position |-> 0]
PErr(kind, position) ==
    [ok |-> FALSE, val |-> <<>>, pos |-> 0, kind |-> kind,
     position |-> position]

\* F applied to the value of r, r being computed once
Bind(r, F(_)) == CHOOSE y \in {F(x) : x \in {r}} : TRUE

\* a sequence: what F makes of the result of the first parser when that
\* succeeded, the error of the first parser otherwise
AndThen(r, F(_)) == Bind(r, LAMBDA x : IF x.ok THEN F(x) ELSE x)

\* an alternative `a | b`: the result of a when it succeeded, else that of b
OrElse(r, alt) == Bind(r, LAMBDA x : IF x.ok THEN x ELSE alt)

\* input.get(p): the byte at offset p, "" where there is none
Get(src, p) == IF p < Len(src) THEN src[p + 1] ELSE ""

\* &input[a..b]
Slice(src, a, b) == SubSeq(src, a + 1, b)

sym(c, src, p) ==
    IF Get(src, p) = "" THEN PErr("Incomplete", 0)
    ELSE IF Get(src, p) = c THEN POk(c, p + 1)
    ELSE PErr("Mismatch", p)

one_of(S, src, p) ==
    IF Get(src, p) = "" THEN PErr("Incomplete", 0)
    ELSE IF Get(src, p) \in S THEN POk(Get(src, p), p + 1)
    ELSE PErr("Mismatch", p)

none_of(S, src, p) ==
    IF Get(src, p) = "" THEN PErr("Incomplete", 0)
    ELSE IF Get(src, p) \notin S THEN POk(Get(src, p), p + 1)
    ELSE PErr("Mismatch", p)

RECURSIVE seq_from(_, _, _, _)
seq_from(tag, index, src, start) ==
    IF index = Len(tag) THEN POk(tag, start + index)
    ELSE IF Get(src, start + index) = "" THEN PErr("Incomplete", 0)
    ELSE IF Get(src, start + index) # tag[index + 1]
    THEN PErr("Mismatch", start + index)
    ELSE seq_from(tag, index + 1, src, start)

seq(tag, src, start) == seq_from(tag, 0, src, start)

\* one_of(S).repeat(0..): the offset after the longest run of bytes of S
RECURSIVE repeat_one_of(_, _, _)
repeat_one_of(S, src, p) ==
    IF one_of(S, src, p).ok THEN repeat_one_of(S, src, p + 1) ELSE p

\* none_of(S).repeat(0..)
RECURSIVE repeat_none_of(_, _, _)
repeat_none_of(S, src, p) ==
    IF none_of(S, src, p).ok THEN repeat_none_of(S, src, p + 1) ELSE p

\* end(): succeeds only where the input has no byte left
end(src, p) ==
    IF Get(src, p) # "" THEN PErr("Mismatch", p) ELSE POk(<<>>, p)

\* haystack.windows(needle.len()).position(|w| w == needle), from index i
RECURSIVE find_from(_, _, _)
find_from(haystack, needle, i) ==
    IF i + Len(needle) > Len(haystack) THEN None
    ELSE IF SubSeq(haystack, i + 1, i + Len(needle)) = needle THEN Some(i)
    ELSE find_from(haystack, needle, i + 1)

find_subsequence(haystack, needle) == find_from(haystack, needle, 0)

\* (variant: the offset returned is the one just after the needle)
until_exact(needle, src, start) ==
    Bind(find_subsequence(SubSeq(src, start + 1, Len(src)), needle),
         LAMBDA pos :
             IF ~pos.some THEN PErr("Incomplete", 0)
             ELSE POk(Slice(src, start, start + pos.v),
                      start + pos.v + Len(needle)))

\* until (parser.rs:99-119): the text up to the needle, and the offset
\* start + position + 1 + needle.len()
until(needle, src, start) ==
    Bind(find_subsequence(SubSeq(src, start + 1, Len(src)), needle),
         LAMBDA pos :
             IF ~pos.some THEN PErr("Incomplete", 0)
             ELSE POk(Slice(src, start, start + pos.v),
                      start + pos.v + 1 + Len(needle)))

spaces(src, p) == POk(<<>>, repeat_one_of({" ", "\t"}, src, p))

\* str::parse::<i64> on a run of decimal digits: the value when it is at
\* most i64::MAX, an error otherwise.  Leading zeros do not count.
RECURSIVE StripZeros(_)
StripZeros(ds) ==
    IF Len(ds) > 1 /\ Head(ds) = "0" THEN StripZeros(Tail(ds)) ELSE ds

DigitValue(c) == CHOOSE d \in 0..9 : DigitChar(d) = c

I64Max == <<"9", "2", "2", "3", "3", "7", "2", "0", "3", "6", "8", "5", "4",
            "7", "7", "5", "8", "0", "7">>

\* a <= b for digit strings of one length
RECURSIVE DigitsLeq(_, _)
DigitsLeq(a, b) ==
    IF a = <<>> THEN TRUE
    ELSE IF DigitValue(Head(a)) # DigitValue(Head(b))
    THEN DigitValue(Head(a)) < DigitValue(Head(b))
    ELSE DigitsLeq(Tail(a), Tail(b))

FitsI64(ds) ==
    Bind(StripZeros(ds), LAMBDA s :
        Len(s) < Len(I64Max) \/ (Len(s) = Len(I64Max) /\ DigitsLeq(s, I64Max)))

RECURSIVE DecimalValue(_)
DecimalValue(ds) ==
    IF ds = <<>> THEN 0
    ELSE DecimalValue(SubSeq(ds, 1, Len(ds) - 1)) * 10
         + DigitValue(ds[Len(ds)])

\* the value of a run of digits, or the conversion error raised at `start`
parse_i64(digits, start, stop) ==
    IF FitsI64(digits) THEN POk(DecimalValue(digits), stop)
    ELSE PErr("Conversion", start)

\* (variant: the integer of _number, parser.rs:149, which takes no leading
\* zero)
integer_number(src, p) ==
    Bind(one_of(Digits \ {"0"}, src, p), LAMBDA first :
        IF first.ok
        THEN Bind(repeat_one_of(Digits, src, first.pos), LAMBDA stop :
                 parse_i64(Slice(src, p, stop), p, stop))
        ELSE AndThen(sym("0", src, p), LAMBDA zero : POk(0, zero.pos)))

\* integer (parser.rs:139-142)
integer(src, p) ==
    Bind(repeat_one_of(Digits, src, p), LAMBDA stop :
        IF stop = p THEN PErr("Mismatch", p)
        ELSE parse_i64(Slice(src, p, stop), p, stop))

\* the bytes 0x08 and 0x0C, which an escape of string() yields
Backspace == "<08>"
FormFeed == "<0C>"

special_char(src, p) ==
    Bind(Get(src, p), LAMBDA c :
        IF c = "" THEN PErr("Incomplete", 0)
        ELSE IF c \in {"\\", "/", "\""} THEN POk(c, p + 1)
        ELSE IF c = "b" THEN POk(Backspace, p + 1)
        ELSE IF c = "f" THEN POk(FormFeed, p + 1)
        ELSE IF c = "n" THEN POk("\n", p + 1)
        ELSE IF c = "r" THEN POk("\r", p + 1)
        ELSE IF c = "t" THEN POk("\t", p + 1)
        ELSE PErr("Mismatch", p))

escape_sequence(src, p) ==
    AndThen(sym("\\", src, p), LAMBDA b : special_char(src, b.pos))

\* (none_of(b"\\\"") | escape_sequence).repeat(1..)
RECURSIVE char_string_from(_, _, _, _)
char_string_from(acc, src, start, p) ==
    Bind(OrElse(none_of({"\\", "\""}, src, p), escape_sequence(src, p)),
         LAMBDA item :
             IF item.ok
             THEN char_string_from(Append(acc, item.val), src, start, item.pos)
             ELSE IF acc = <<>> THEN PErr("Mismatch", start)
             ELSE POk(acc, p))

char_string(src, p) == char_string_from(<<>>, src, p, p)

\* string (parser.rs:159-169)
string(src, p) ==
    AndThen(sym("\"", src, p), LAMBDA open :
    Bind(char_string(src, open.pos), LAMBDA body :
    Bind(IF body.ok THEN body ELSE POk(<<>>, open.pos), LAMBDA mid :
    AndThen(sym("\"", src, mid.pos), LAMBDA close :
    POk(mid.val, close.pos)))))

\* identifier (parser.rs:174-179)
identifier(src, p) ==
    AndThen(OrElse(one_of(Alpha, src, p), sym("_", src, p)), LAMBDA first :
    Bind(repeat_one_of(AlphaNum \cup {"_"}, src, first.pos), LAMBDA stop :
    POk(JoinChars(Slice(src, p, stop)), stop)))

bool_literal(src, p) ==
    OrElse(AndThen(seq(<<"t", "r", "u", "e">>, src, p),
                   LAMBDA t : POk(BoolV(TRUE), t.pos)),
           AndThen(seq(<<"f", "a", "l", "s", "e">>, src, p),
                   LAMBDA f : POk(BoolV(FALSE), f.pos)))

string_literal(src, p) ==
    AndThen(string(src, p), LAMBDA s : POk(StringV(s.val), s.pos))

integer_literal(src, p) ==
    AndThen(integer(src, p), LAMBDA i : POk(IntegerV(i.val), i.pos))

\* literal (parser.rs:197-199): string | integer | bool
literal(src, p) ==
    OrElse(string_literal(src, p),
           OrElse(integer_literal(src, p), bool_literal(src, p)))

literal_expression(src, p) ==
    AndThen(literal(src, p), LAMBDA r : POk(LiteralE(r.val), r.pos))

variable_expression(src, p) ==
    AndThen(sym("$", src, p), LAMBDA d :
    AndThen(identifier(src, d.pos), LAMBDA id :
    POk(VariableE(id.val), id.pos)))

\* heredoc_expression (parser.rs:219-231): "<<<", the tag as the longest
\* run of letters, then until(tag + ">>>")
heredoc_expression(src, p) ==
    AndThen(seq(<<"<", "<", "<">>, src, p), LAMBDA open :
    Bind(repeat_one_of(Alpha, src, open.pos), LAMBDA stop :
        IF stop = open.pos THEN PErr("Mismatch", open.pos)
        ELSE AndThen(until(Slice(src, open.pos, stop) \o <<">", ">", ">">>,
                                          src, stop),
                     LAMBDA doc : POk(HereDocE(doc.val), doc.pos))))

RECURSIVE expression(_, _)
RECURSIVE array_expression(_, _)
RECURSIVE expression_list_more(_, _, _)

\* the items of list(expression, sym(',') spaces) after the first: a
\* separator not followed by an item is not taken
expression_list_more(items, src, p) ==
    Bind(sym(",", src, p), LAMBDA c :
        IF ~c.ok THEN POk(items, p)
        ELSE Bind(spaces(src, c.pos), LAMBDA s :
             Bind(expression(src, s.pos), LAMBDA more :
                 IF more.ok
                 THEN expression_list_more(Append(items, more.val), src,
                                           more.pos)
                 ELSE POk(items, p))))

expression_list(src, p) ==
    Bind(expression(src, p), LAMBDA first :
        IF first.ok THEN expression_list_more(<<first.val>>, src, first.pos)
        ELSE POk(<<>>, p))

array_expression(src, p) ==
    AndThen(sym("[", src, p), LAMBDA open :
    AndThen(spaces(src, open.pos), LAMBDA s :
    AndThen(expression_list(src, s.pos), LAMBDA elems :
    AndThen(sym("]", src, elems.pos), LAMBDA close :
    POk(ArrayE(elems.val), close.pos)))))

\* expression (parser.rs:233-235)
expression(src, p) ==
    OrElse(literal_expression(src, p),
           OrElse(array_expression(src, p),
                  OrElse(heredoc_expression(src, p),
                         variable_expression(src, p))))

emptyline_statement(src, p) ==
    AndThen(spaces(src, p), LAMBDA s :
    AndThen(sym("\n", src, s.pos), LAMBDA n :
    POk(EmptyLine, n.pos)))

comment_statement(src, p) ==
    AndThen(sym("#", src, p), LAMBDA h :
    Bind(repeat_none_of({"\n"}, src, h.pos), LAMBDA stop :
    AndThen(sym("\n", src, stop), LAMBDA n :
    POk(Comment, n.pos))))

\* assign_statement (parser.rs:252-255)
assign_statement(src, p) ==
    AndThen(spaces(src, p), LAMBDA s1 :
    AndThen(seq(<<"l", "e", "t">>, src, s1.pos), LAMBDA l :
    AndThen(spaces(src, l.pos), LAMBDA s2 :
    AndThen(identifier(src, s2.pos), LAMBDA id :
    AndThen(spaces(src, id.pos), LAMBDA s3 :
    AndThen(sym("=", src, s3.pos), LAMBDA eq :
    AndThen(spaces(src, eq.pos), LAMBDA s4 :
    AndThen(expression(src, s4.pos), LAMBDA ex :
    POk(Assign(id.val, ex.val), ex.pos)))))))))

\* function_call_statement (parser.rs:257-260)
function_call_statement(src, p) ==
    AndThen(identifier(src, p), LAMBDA id :
    AndThen(spaces(src, id.pos), LAMBDA s :
    AndThen(sym("(", src, s.pos), LAMBDA open :
    AndThen(expression_list(src, open.pos), LAMBDA args :
    AndThen(sym(")", src, args.pos), LAMBDA close :
    POk(FnCall(id.val, args.val), close.pos))))))

\* (spaces + '|') * none_of("\n")* - '\n': the text after the bar
bar_line(src, p) ==
    AndThen(spaces(src, p), LAMBDA s :
    AndThen(sym("|", src, s.pos), LAMBDA bar :
    Bind(repeat_none_of({"\n"}, src, bar.pos), LAMBDA stop :
    AndThen(sym("\n", src, stop), LAMBDA n :
    POk(Slice(src, bar.pos, stop), n.pos)))))

single_remote_statement(src, p) ==
    AndThen(bar_line(src, p), LAMBDA r : POk(RemoteSingle(r.val), r.pos))

block_start(src, p) ==
    AndThen(spaces(src, p), LAMBDA s :
    AndThen(sym("+", src, s.pos), LAMBDA plus :
    Bind(repeat_none_of({"\n"}, src, plus.pos), LAMBDA stop :
    sym("\n", src, stop))))

block_end(src, p) ==
    AndThen(spaces(src, p), LAMBDA s1 :
    AndThen(sym("+", src, s1.pos), LAMBDA plus :
    AndThen(spaces(src, plus.pos), LAMBDA s2 :
    sym("\n", src, s2.pos))))

RECURSIVE block_lines(_, _, _)
block_lines(items, src, p) ==
    Bind(bar_line(src, p), LAMBDA r :
        IF r.ok THEN block_lines(Append(items, r.val), src, r.pos)
        ELSE POk(items, p))

multi_remote_statement(src, p) ==
    AndThen(block_start(src, p), LAMBDA start :
    AndThen(block_lines(<<>>, src, start.pos), LAMBDA body :
    AndThen(block_end(src, body.pos), LAMBDA stop :
    POk(Remote(body.val), stop.pos))))

RECURSIVE statement(_, _)
RECURSIVE for_loop_statement(_, _)
RECURSIVE statements(_, _, _)

\* statement().repeat(0..)
statements(items, src, p) ==
    Bind(statement(src, p), LAMBDA r :
        IF r.ok THEN statements(Append(items, r.val), src, r.pos)
        ELSE POk(items, p))

\* for_loop_statement (parser.rs:278-286)
for_loop_statement(src, p) ==
    AndThen(spaces(src, p), LAMBDA s1 :
    AndThen(seq(<<"f", "o", "r">>, src, s1.pos), LAMBDA f :
    AndThen(spaces(src, f.pos), LAMBDA s2 :
    AndThen(identifier(src, s2.pos), LAMBDA id :
    AndThen(spaces(src, id.pos), LAMBDA s3 :
    AndThen(seq(<<"i", "n">>, src, s3.pos), LAMBDA in :
    AndThen(spaces(src, in.pos), LAMBDA s4 :
    AndThen(expression(src, s4.pos), LAMBDA ex :
    AndThen(spaces(src, ex.pos), LAMBDA s5 :
    AndThen(sym("{", src, s5.pos), LAMBDA open :
    AndThen(statements(<<>>, src, open.pos), LAMBDA body :
    AndThen(spaces(src, body.pos), LAMBDA s6 :
    AndThen(sym("}", src, s6.pos), LAMBDA close :
    POk(ForLoop(id.val, ex.val, body.val), close.pos))))))))))))))

\* statement (parser.rs:289-291)
statement(src, p) ==
    OrElse(comment_statement(src, p),
    OrElse(emptyline_statement(src, p),
    OrElse(assign_statement(src, p),
    OrElse(function_call_statement(src, p),
    OrElse(single_remote_statement(src, p),
    OrElse(multi_remote_statement(src, p),
           for_loop_statement(src, p)))))))

\* script_parser (parser.rs:297-300): statement().repeat(0..), an optional
\* newline, end()
script_parser(src) ==
    Bind(statements(<<>>, src, 0), LAMBDA body :
    Bind(sym("\n", src, body.pos), LAMBDA n :
    AndThen(end(src, IF n.ok THEN n.pos ELSE body.pos), LAMBDA e :
    POk(body.val, e.pos))))

---------------------------------------------------------------------------
(* The parsing step of ScriptContext::run (script.rs:100-134): the text is *)
(* parsed, and a failure is reported as a ParseError holding the 1-based   *)
(* line and column of the offset the parser's error names.                 *)

\* (variant: the offset is always taken at the end of the text, as
\* script.rs:107 does for Incomplete)
error_position_end(e, text) == Len(text)

\* the offset of a pom error (script.rs:103-109)
error_position(e, text) ==
    IF e.kind = "Incomplete" THEN Len(text) ELSE e.position

\* the offsets below `position` that hold a newline (script.rs:113-121)
NewlinesBefore(text, position) ==
    {i \in 0..(Len(text) - 1) : i < position /\ text[i + 1] = "\n"}

Maximum(S) == CHOOSE m \in S : \A x \in S : x <= m

\* str::lines: the text split at "\n", a "\r" before the "\n" dropped, and
\* no line for what follows the last "\n" when that is empty
LineEnds(text) ==
    {i \in 1..Len(text) : text[i] = "\n"}
        \cup (IF text # <<>> /\ text[Len(text)] # "\n" THEN {Len(text) + 1}
              ELSE {})

LineAt(text, stop) ==
    Bind(Maximum({0} \cup {i \in 1..(stop - 1) : text[i] = "\n"}), LAMBDA from :
        IF stop - 1 > from /\ stop <= Len(text) /\ text[stop - 1] = "\r"
        THEN SubSeq(text, from + 1, stop - 2)
        ELSE SubSeq(text, from + 1, stop - 1))

lines(text) ==
    [k \in 1..Cardinality(LineEnds(text)) |->
        LineAt(text, CHOOSE stop \in LineEnds(text) :
                         Cardinality({j \in LineEnds(text) : j <= stop}) = k)]

\* the ParseError built from a pom error (script.rs:111-133)
parse_error(e, text) ==
    Bind(error_position(e, text), LAMBDA position :
    Bind(NewlinesBefore(text, position), LAMBDA before :
    Bind(1 + Cardinality(before), LAMBDA current_line :
    Bind(position - (IF before = {} THEN 0 - 1 ELSE Maximum(before)),
         LAMBDA current_col :
             [kind |-> e.kind,
              position |-> position,
              line |-> current_line,
              col |-> current_col,
              line_content |->
                  IF current_line <= Len(lines(text))
                  THEN lines(text)[current_line] ELSE <<>>,
              pointer |-> [i \in 1..current_col |->
                              IF i < current_col THEN " " ELSE "^"]]))))

\* The texts parsed: up to MaxPieces of the pieces below, one after another
MaxPieces == 3

Pieces ==
    << <<"l", "e", "t", " ", "x", " ", "=", " ", "5">>,
      <<"\n">>,
      <<"|", " ", "e", "\n">>,
      <<"#", "c", "\n">>,
      <<"l", "e", "t", " ", "h", " ", "=", " ", "<", "<", "<", "T", " ", "a",
        " ", "T", ">", ">", ">">>,
      <<"u", "p", "l", "o", "a", "d", "(", "<", "<", "<", "T", " ", "a", " ",
        "T", ">", ">", ">", ",", " ", "\"", "/", "p", "\"", ")">>,
      <<"u", "p", "l", "o", "a", "d", "(", "\"", "d", "\"", ",", " ", "\"", "/",
        "p", "\"", ")">>,
      <<"l", "e", "t", " ", "u", " ", "=", " ", "<", "<", "<", "T", " ", "a">>,
      <<"+", "\n", "|", " ", "a", "\n", "+", "\n">>,
      <<"f", "o", "r", " ", "v", " ", "i", "n", " ", "[", "1", ",", " ", "$",
        "x", "]", " ", "{", "\n", "|", " ", "e", "\n", "}">>,
      <<"l", "e", "t", " ", "a", " ", "=", " ", "t", "r", "u", "e", "\r", "\n">>,
      <<"x">>,
      <<" ">>,
      <<"l", "e", "t", " ", "s", " ", "=", " ", "\"", "a", "\\", "n", "\"">>>>

RECURSIVE JoinPieces(_)
JoinPieces(ixs) ==
    IF ixs = <<>> THEN <<>> ELSE Pieces[Head(ixs)] \o JoinPieces(Tail(ixs))

ScriptTexts == {JoinPieces(ixs) : ixs \in SeqsUpTo(1..Len(Pieces),
      MaxPieces)}

\* Assignments of a run of digits: short runs, and runs about as long as
\* i64::MAX that do or do not fit an i64
MaxDigits == 3

DigitRuns ==
    (SeqsUpTo({"0", "1", "9"}, MaxDigits) \ {<<>>})
    \cup {<<"2", "1", "4", "7", "4", "8", "3", "6", "4", "7">>, <<"0", "0",
      "0", "0", "0", "0", "0", "0", "0", "0", "0", "0", "0", "0", "0", "0",
      "0", "0", "0", "0", "4", "2">>,
          <<"9", "2", "2", "3", "3", "7", "2", "0", "3", "6", "8", "5", "4",
      "7", "7", "5", "8", "0", "8">>, <<"1", "0", "0", "0", "0", "0", "0",
      "0", "0", "0", "0", "0", "0", "0", "0", "0", "0", "0", "0", "0">>}

LetX == <<"l", "e", "t", " ", "x", " ", "=", " ">>

AssignTexts == {LetX \o ds : ds \in DigitRuns}

ParseOk ==
    /\ pstatus = "new"
    /\ \E r \in {script_parser(contents)} :
          /\ r.ok
          /\ ast' = r.val
    /\ pstatus' = "parsed"
    /\ UNCHANGED <<contents, perror>>
    /\ UNCHANGED <<ctxVars, mainVars, clientVars, procVars, runVars, upVars,
                   connVars>>

ParseFail ==
    /\ pstatus = "new"
    /\ \E r \in {script_parser(contents)} :
          /\ ~r.ok
          /\ perror' = parse_error(r, contents)
    /\ pstatus' = "failed"
    /\ UNCHANGED <<contents, ast>>
    /\ UNCHANGED <<ctxVars, mainVars, clientVars, procVars, runVars, upVars,
                   connVars>>

InitParse ==
    /\ CtxIdle
    /\ MainIdle
    /\ RunIdle
    /\ UpIdle
    /\ ConnIdle
    /\ ClientIdle
    /\ contents \in ScriptTexts \cup AssignTexts
    /\ pstatus = "new"
    /\ ast = <<>>
    /\ perror = <<>>

NextParse ==
    \/ ParseOk
    \/ ParseFail

SpecParse == InitParse /\ [][NextParse]_vars

---------------------------------------------------------------------------
(* SshClient::connect_impl (sshclient.rs:74-125), one action per fallible  *)
(* call or loop step.  The target is matched against                       *)
(* ^(?P<username>[^:@]+)@(?P<hostname>[^:]+)(:(?P<port>\d+))?$ ; the agent  *)
(* lists its identities in an order of its own, and the server accepts or  *)
(* refuses each authentication attempt.                                    *)

\* the first index of text at or after i holding a byte of S, Len + 1 if none
RECURSIVE IndexOf(_, _, _)
IndexOf(S, text, i) ==
    IF i > Len(text) \/ text[i] \in S THEN i ELSE IndexOf(S, text, i + 1)

U16Max == <<"6", "5", "5", "3", "5">>

\* str::parse::<u16> succeeds on these runs of digits
FitsU16(ds) ==
    LET s == StripZeros(ds)
    IN  Len(s) < Len(U16Max) \/ (Len(s) = Len(U16Max) /\ DigitsLeq(s, U16Max))

DefaultPort == 22

\* the captures of the target pattern and the port: [ok, username, host, port]
parse_target(text) ==
    LET at == IndexOf({"@", ":"}, text, 1)
        colon == IndexOf({":"}, text, at + 1)
        digits == SubSeq(text, colon + 1, Len(text))
        bad == [ok |-> FALSE, username |-> <<>>, host |-> <<>>, port |-> 0]
    IN  IF at > Len(text) \/ text[at] # "@" \/ at = 1 THEN bad
        ELSE IF at = Len(text) \/ colon = at + 1 THEN bad
        ELSE IF colon > Len(text)
        THEN [ok |-> TRUE, username |-> SubSeq(text, 1, at - 1),
              host |-> SubSeq(text, at + 1, Len(text)), port |-> DefaultPort]
        ELSE IF digits = <<>> \/ \E i \in DOMAIN digits : digits[i] \notin Digits
        THEN bad
        ELSE IF ~FitsU16(digits) THEN bad
        ELSE [ok |-> TRUE, username |-> SubSeq(text, 1, at - 1),
              host |-> SubSeq(text, at + 1, colon - 1),
              port |-> DecimalValue(digits)]

\* the targets connect is called with
Targets ==
    {<<"u", "@", "h">>, <<"u", "@", "h", ":", "2", "2">>, <<"u", "@", "h",
                                          ":", "0">>, <<"u", "@", "h", ":",
                                          "7", "0", "0", "0", "0">>, <<"u",
                                          "h">>, <<"@", "h">>,
     <<"u", "@">>, <<"u", "@", "h", ":">>, <<"u", ":", "x", "@", "h">>,
                                          <<"u", "@", "h", ":", "2", "a">>}

\* the most identities the agent lists
MaxIdentities == 3

Keys == {"k1", "k2"}

ConnFail(e) ==
    /\ cresult' = e
    /\ cpc' = "done"

ConnEntry ==
    /\ cpc = "entry"
    /\ IF parse_target(conn_target).ok
       THEN cpc' = "tcp" /\ UNCHANGED cresult
       ELSE ConnFail("BadTarget")
    /\ UNCHANGED <<conn_target, identities, tried, authenticated>>
    /\ UNCHANGED <<ctxVars, mainVars, clientVars, procVars, runVars, upVars,
                   parseVars>>

\* TcpStream::connect(target)?
ConnTcp ==
    /\ cpc = "tcp"
    /\ \/ cpc' = "handshake" /\ UNCHANGED cresult
       \/ ConnFail("IoError")
    /\ UNCHANGED <<conn_target, identities, tried, authenticated>>
    /\ UNCHANGED <<ctxVars, mainVars, clientVars, procVars, runVars, upVars,
                   parseVars>>

\* Session::new()? and session.handshake()?
ConnHandshake ==
    /\ cpc = "handshake"
    /\ \/ cpc' = "agent" /\ UNCHANGED cresult
       \/ ConnFail("SshError")
    /\ UNCHANGED <<conn_target, identities, tried, authenticated>>
    /\ UNCHANGED <<ctxVars, mainVars, clientVars, procVars, runVars, upVars,
                   parseVars>>

\* session.agent()?, agent.connect()?, agent.list_identities()? and
\* agent.identities()?
ConnAgent ==
    /\ cpc = "agent"
    /\ \/ /\ \E ids \in SeqsUpTo(Keys, MaxIdentities) : identities' = Some(ids)
          /\ cpc' = "auth"
          /\ UNCHANGED cresult
       \/ ConnFail("SshError") /\ UNCHANGED identities
    /\ UNCHANGED <<conn_target, tried, authenticated>>
    /\ UNCHANGED <<ctxVars, mainVars, clientVars, procVars, runVars, upVars,
                   parseVars>>

\* (variant: the loop goes on to the next identity after a success too)
after_userauth_continue(ok) == "auth"

\* the match on agent.userauth: Ok breaks out of the loop, Err continues
after_userauth(ok) == IF ok THEN "check" ELSE "auth"

\* one iteration of `for identity in identities.iter()`
ConnUserauth ==
    /\ cpc = "auth"
    /\ Len(tried) < Len(identities.v)
    /\ \E ok \in BOOLEAN :
          /\ tried' = Append(tried, [identity |-> identities.v[Len(tried) + 1],
                                     ok |-> ok])
          /\ authenticated' = (authenticated \/ ok)
          /\ cpc' = after_userauth(ok)
    /\ UNCHANGED <<conn_target, identities, cresult>>
    /\ UNCHANGED <<ctxVars, mainVars, clientVars, procVars, runVars, upVars,
                   parseVars>>

\* the identities are exhausted
ConnLoopEnd ==
    /\ cpc = "auth"
    /\ Len(tried) = Len(identities.v)
    /\ cpc' = "check"
    /\ UNCHANGED <<conn_target, identities, tried, authenticated, cresult>>
    /\ UNCHANGED <<ctxVars, mainVars, clientVars, procVars, runVars, upVars,
                   parseVars>>

\* (variant: the session is stored whether or not an identity was accepted)
store_session_always(auth) == TRUE

\* self.session = Some(session) is reached only when authenticated
store_session(auth) == auth

\* `if authenticated == false { return Err(BadTarget) }`, then the session
\* is stored and connect returns Ok
ConnCheck ==
    /\ cpc = "check"
    /\ session' = (session \/ store_session(authenticated))
    /\ cresult' = IF authenticated THEN "ok" ELSE "BadTarget"
    /\ cpc' = "done"
    /\ UNCHANGED <<conn_target, identities, tried, authenticated, use_sudo>>
    /\ UNCHANGED <<ctxVars, mainVars, procVars, runVars, upVars, parseVars>>

InitConnect ==
    /\ CtxIdle
    /\ MainIdle
    /\ RunIdle
    /\ UpIdle
    /\ ParseIdle
    /\ session = FALSE
    /\ use_sudo \in BOOLEAN
    /\ cpc = "entry"
    /\ conn_target \in Targets
    /\ identities = None
    /\ tried = <<>>
    /\ authenticated = FALSE
    /\ cresult = "none"

NextConnect ==
    \/ ConnEntry
    \/ ConnTcp
    \/ ConnHandshake
    \/ ConnAgent
    \/ ConnUserauth
    \/ ConnLoopEnd
    \/ ConnCheck

SpecConnect == InitConnect /\ [][NextConnect]_vars

---------------------------------------------------------------------------
(* Properties of the interpreter                                           *)

ExecutorOps == {"connect", "run", "command", "upload"}

CallsOf(op) == {i \in DOMAIN trace : trace[i].op = op}

RECURSIVE ArgsOf(_, _)
\* the first arguments of the calls of op in tr, in order
ArgsOf(tr, op) ==
    IF tr = <<>> THEN <<>>
    ELSE IF Head(tr).op = op THEN <<Head(tr).a>> \o ArgsOf(Tail(tr), op)
    ELSE ArgsOf(Tail(tr), op)

Finished == status \in {"ok", "err"}

\* the script  let target = "..." / | text
IsProgTargetVar ==
    /\ Len(script) = 3
    /\ script[1].s = "Assign" /\ script[1].name = "target"
    /\ script[3].s = "RemoteSingle"

\* C1: with no target given and a script that assigns `target` before its
\* first remote statement, the run connects to the value of that variable:
\* once the run of such a script is over, connect was called with that value,
\* and a BadTarget failure can only be the one that connect returned.
C1_TargetFromScriptVariable ==
    (~target.some /\ IsProgTargetVar /\ Finished) =>
        /\ ArgsOf(trace, "connect") = <<to_string(variables["target"])>>
        /\ error.kind = "BadTarget" => trace[Len(trace)].res = "BadTarget"

\* C2: with a target given, every connect is a connect to exactly that
\* target, whatever the script binds to `target`, and every run is preceded
\* by such a connect.
C2_GivenTargetWins ==
    target.some =>
        /\ \A i \in CallsOf("connect") : trace[i].a = target.v
        /\ \A i \in CallsOf("run") :
              \E j \in 1..(i - 1) : trace[j] = Call("connect", target.v, <<>>, "Ok")

C2_Witness ==
    /\ target.some
    /\ "target" \in DOMAIN variables
    /\ variables["target"] = StringV(ScriptTarget)
    /\ variables["target"].v # target.v
    /\ CallsOf("run") # {}

\* the statement about to execute is a call of upload with two arguments of
\* the kinds upload accepts
AtValidUpload ==
    /\ AtStatement
    /\ Cur.s = "FnCall" /\ Cur.name = "upload"
    /\ LET args == EvaluateAll(Cur.args, variables)
       IN  /\ args.ok
           /\ Len(args.vals) = 2
           /\ args.vals[1].tag \in {"String", "HereDoc"}
           /\ args.vals[2].tag = "String"

\* the statement about to execute touches the remote host
AtRemoteTouching ==
    \/ AtStatement /\ Cur.s \in {"RemoteSingle", "Remote"}
    \/ AtValidUpload

\* C3: with no target given and no variable `target`, a step that executes
\* a remote-touching statement (remote line, remote block, upload call)
\* fails the run with BadTarget, and no step ever invokes an executor
\* operation.
C3_NoTargetNoExecutorCall ==
    [][(~target.some /\ "target" \notin DOMAIN variables) =>
          /\ \A i \in DOMAIN trace' : trace'[i].op \notin ExecutorOps
          /\ AtRemoteTouching => status' = "err" /\ error'.kind = "BadTarget"]_vars

\* C4: connect is invoked at most once in a run, and only by a step that
\* executes a remote-touching statement.
C4_ConnectOnceAndLazily ==
    [][/\ Cardinality({i \in DOMAIN trace' : trace'[i].op = "connect"}) <= 1
       /\ Cardinality({i \in DOMAIN trace' : trace'[i].op = "connect"})
             > Cardinality(CallsOf("connect")) => AtRemoteTouching]_vars

C4_Witness ==
    /\ Cardinality(CallsOf("connect")) = 1
    /\ Cardinality(CallsOf("run")) >= 2
    /\ status = "ok"

\* C5: a failed connect is the last thing the run does: the run has failed
\* with connect's error, the session is not marked connected, and nothing
\* follows the failed connect in the trace (no retry, no run, no upload).
C5_ConnectFailureIsTerminal ==
    \A i \in CallsOf("connect") :
        trace[i].res # "Ok" =>
            /\ i = Len(trace)
            /\ status = "err"
            /\ error = Err(trace[i].res, <<>>)
            /\ ~connected

C5_Witness ==
    \E i \in CallsOf("connect") : trace[i].res = "SshError"

\* C6: upload ensures the connection first: in a run that has a target,
\* every upload call is preceded by a successful connect to that target, so
\* upload is never invoked on a session that was not connected.
C6_UploadAfterConnect ==
    target.some =>
        \A i \in CallsOf("upload") :
            \E j \in 1..(i - 1) : trace[j] = Call("connect", target.v, <<>>, "Ok")

\* no call follows a call that failed
NoCallAfterFailure(tr) ==
    \A i \in DOMAIN tr : tr[i].res # "Ok" => i = Len(tr)

\* C7: a failing statement ends the run: the failing step leaves the
\* environment as it was, unwinds every frame and records the error, the
\* failed call is the last call made, and no step of the interpreter is
\* taken once the run has failed.
C7_FailureAbortsRun ==
    [][/\ status = "err" => UNCHANGED ctxVars
       /\ NoCallAfterFailure(trace')
       /\ status' = "err" =>
             /\ variables' = variables
             /\ stack' = <<>>
             /\ error' # NoError]_vars

\* a run failing at the second remote statement executed inside the nested loops
C7_Witness ==
    /\ status = "err"
    /\ Len(script) = 5 /\ script[3].s = "ForLoop" /\ script[3].body[2].s = "ForLoop"
    /\ Len(trace) = 3
    /\ trace[2].op = "run" /\ trace[2].res = "Ok"
    /\ trace[3].op = "run" /\ trace[3].res = "SshError"

\* the texts the loop of ProgLoop is to hand to run, in order
LoopExpected ==
    [i \in 1..Len(LoopArray) |-> <<"e", " ">> \o to_string(LoopArray[i])]

IsPrefix(p, q) == Len(p) <= Len(q) /\ SubSeq(q, 1, Len(p)) = p

\* C8: for  for v in $a { |e {{ v }} }  over an array of n elements, the run
\* operation receives the text expanded with the i-th element as its i-th
\* call: at any time the calls made are the first calls of that sequence,
\* and when the run returns Ok they are exactly the n calls.
C8_LoopRunsOncePerElementInOrder ==
    IsLoopProgram =>
        /\ IsPrefix(ArgsOf(trace, "run"), LoopExpected)
        /\ status = "ok" => ArgsOf(trace, "run") = LoopExpected

C8_Witness ==
    /\ IsLoopProgram
    /\ status = "ok"
    /\ Len(LoopArray) >= 2
    /\ LoopArray[1] # LoopArray[2]
    /\ Len(ArgsOf(trace, "run")) = Len(LoopArray)

RECURSIVE Placeholders(_, _)
\* the names in the `{{ name }}` blocks of src, from position i on
Placeholders(src, i) ==
    IF i > Len(src) THEN {}
    ELSE IF src[i] = "{" /\ i + 1 <= Len(src) /\ src[i + 1] = "{" THEN
        LET j == SkipSpaces(src, i + 2)
            k == IdentEnd(src, j)
            m == SkipSpaces(src, k)
        IN  IF /\ j <= Len(src) /\ IsIdentStart(src[j])
               /\ m + 1 <= Len(src) /\ src[m] = "}" /\ src[m + 1] = "}"
            THEN {JoinChars(SubSeq(src, j, k - 1))} \cup Placeholders(src, m + 2)
            ELSE {}
    ELSE Placeholders(src, i + 1)

\* src has a placeholder whose name is not bound in env
HasUnbound(src, env) == Placeholders(src, 1) \ DOMAIN env # {}

\* the text a remote statement hands to template expansion
RemoteText(stmt) ==
    IF stmt.s = "RemoteSingle" THEN stmt.text ELSE JoinLines(stmt.lines)

\* C14: a statement whose text holds a placeholder with an unbound name
\* fails: a remote line or block invokes no run and, once connected, fails
\* with the template error; an assignment of such a string fails with the
\* template error and assigns nothing.
C14_UnboundPlaceholderFails ==
    [][/\ (/\ AtStatement
           /\ Cur.s \in {"RemoteSingle", "Remote"}
           /\ HasUnbound(RemoteText(Cur), variables)) =>
              /\ status' = "err"
              /\ ArgsOf(trace', "run") = ArgsOf(trace, "run")
              /\ connected' => error'.kind = "Template"
       /\ (/\ AtStatement
           /\ Cur.s = "Assign"
           /\ Cur.expr.e = "Literal"
           /\ Cur.expr.v.tag = "String"
           /\ HasUnbound(Cur.expr.v.v, variables)) =>
              /\ status' = "err"
              /\ error'.kind = "Template"
              /\ variables' = variables]_vars

\* the evaluated arguments of the call about to be executed
CallArgs == EvaluateAll(Cur.args, variables)

\* the next statement is a call of `name` whose arguments evaluate
AtCall(name) ==
    /\ AtStatement
    /\ Cur.s = "FnCall"
    /\ Cur.name = name
    /\ CallArgs.ok

\* C15: an upload call with two arguments, the first not a String or
\* HereDoc or the second not a String, fails with BadArgType and adds no
\* executor call (nor any other effect).
C15_UploadBadArgType ==
    [][(/\ AtCall("upload")
        /\ Len(CallArgs.vals) = 2
        /\ \/ CallArgs.vals[1].tag \notin {"String", "HereDoc"}
           \/ CallArgs.vals[2].tag # "String") =>
           /\ status' = "err"
           /\ error'.kind = "BadArgType"
           /\ trace' = trace
           /\ connected' = connected]_vars

\* upload(<<<T d T>>>, 5) failed on its second argument
C15_Witness ==
    /\ status = "err"
    /\ error = Err("BadArgType", <<2>>)
    /\ script[1].s = "FnCall" /\ script[1].name = "upload"
    /\ script[1].args[1].e = "HereDoc"
    /\ trace = <<>>

\* the number of arguments exec and upload take
Arity(name) == IF name = "exec" THEN 1 ELSE 2

\* C16: a call of exec or upload with another number of arguments than the
\* function takes fails with WrongArgCount(expected, actual), whatever the
\* kinds of the arguments, and has no effect.
C16_WrongArgCount ==
    [][\A name \in CheckedFunctions :
          (AtCall(name) /\ Len(Cur.args) # Arity(name)) =>
              /\ status' = "err"
              /\ error' = Err("WrongArgCount", <<Arity(name), Len(Cur.args)>>)
              /\ trace' = trace
              /\ connected' = connected]_vars

\* upload(5, ..., ...) failed on the count, not on the Integer
C16_Witness ==
    /\ status = "err"
    /\ error = Err("WrongArgCount", <<2, 3>>)
    /\ script[1].s = "FnCall" /\ script[1].name = "upload"
    /\ script[1].args[1].e = "Literal" /\ script[1].args[1].v.tag = "Integer"
    /\ trace = <<>>

\* C17: a loop whose iterable evaluates to a value that is no Array fails
\* with IterateOverArray; the run ends there, so the loop variable is not
\* bound and no statement of the body is executed.
C17_IterateOverNonArray ==
    [][(/\ AtStatement
        /\ Cur.s = "ForLoop"
        /\ evaluate(Cur.expr, variables).ok
        /\ evaluate(Cur.expr, variables).val.tag # "Array") =>
           /\ status' = "err"
           /\ error' = Err("IterateOverArray", <<>>)
           /\ stack' = <<>>
           /\ variables' = variables
           /\ trace' = trace]_vars

\* for x in $z { ... } with z bound to a String failed, x never bound
C17_Witness ==
    /\ status = "err"
    /\ error = Err("IterateOverArray", <<>>)
    /\ Len(script) = 7 /\ script[5].s = "ForLoop"
    /\ script[5].expr.e = "Variable" /\ script[5].expr.v = "z"
    /\ "z" \in DOMAIN variables /\ variables["z"].tag = "String"
    /\ "x" \notin DOMAIN variables
    /\ trace = <<>>

RECURSIVE UnboundIn(_, _)
\* the unbound variables of exprs, in the order of evaluation
UnboundIn(exprs, env) ==
    IF exprs = <<>> THEN <<>>
    ELSE LET x == Head(exprs)
             first == CASE x.e = "Variable" ->
                              IF x.v \in DOMAIN env THEN <<>> ELSE <<x.v>>
                        [] x.e = "Array" -> UnboundIn(x.v, env)
                        [] OTHER -> <<>>
         IN  first \o UnboundIn(Tail(exprs), env)

\* the expressions a statement evaluates
StmtExprs(stmt) ==
    CASE stmt.s \in {"Assign", "ForLoop"} -> <<stmt.expr>>
      [] stmt.s = "FnCall" -> stmt.args
      [] OTHER -> <<>>

\* C18: a statement that evaluates a variable that is not bound (as the
\* assigned expression, as an argument, as an element of an array or as the
\* iterable of a loop) fails with UndefinedVar of the first such name and
\* has no effect, unless a template of the same statement fails.
C18_UndefinedVariable ==
    [][(/\ AtStatement
        /\ UnboundIn(StmtExprs(Cur), variables) # <<>>
        /\ EvaluateAll(StmtExprs(Cur), variables).err.kind # "Template") =>
           /\ status' = "err"
           /\ error' = Err("UndefinedVar",
                           <<Head(UnboundIn(StmtExprs(Cur), variables))>>)
           /\ variables' = variables
           /\ trace' = trace]_vars

\* for x in $m { ... } with m unbound failed
C18_Witness ==
    /\ status = "err"
    /\ error = Err("UndefinedVar", <<"m">>)
    /\ Len(script) = 7 /\ script[5].s = "ForLoop"
    /\ script[5].expr.e = "Variable" /\ script[5].expr.v = "m"
    /\ "x" \notin DOMAIN variables

\* the variables load_env can have bound before run
EnvNames == DOMAIN EnvFile

\* C12: with the debug flag, run prints the parsed program and executes
\* nothing: the trace holds no executor call (nor any other effect) and the
\* environment holds nothing but what was loaded before run.
C12_DebugShortCircuits ==
    (debug /\ status # "new") =>
        /\ printed
        /\ trace = <<>>
        /\ DOMAIN variables \subseteq EnvNames

\* C19: once main has returned, the process reports success exactly when
\* run returned Ok.
C19_ExitStatusReflectsRun ==
    (exit_code # "none") => (exit_code = "success" <=> status = "ok")

\* src holds the opening of a `{{ }}` block
HasPlaceholder(src) ==
    \E i \in 1..(Len(src) - 1) : src[i] = "{" /\ src[i + 1] = "{"

\* the statement about to execute assigns a string or heredoc literal
IsTextAssign ==
    /\ AtStatement
    /\ Cur.s = "Assign"
    /\ \/ Cur.expr.e = "HereDoc"
       \/ Cur.expr.e = "Literal" /\ Cur.expr.v.tag \in {"String", "HereDoc"}

\* the text of that literal
AssignText == IF Cur.expr.e = "HereDoc" THEN Cur.expr.v ELSE Cur.expr.v.v

AtRemote == AtStatement /\ Cur.s \in {"RemoteSingle", "Remote"}

\* the step hands a text to run
RunCalled ==
    /\ Len(trace') = Len(trace) + 1
    /\ trace'[Len(trace')].op = "run"

\* C22: expanding a text that holds no `{{ }}` placeholder returns it
\* unchanged, byte for byte, leading whitespace and trailing newline
\* included: an assigned string or heredoc without placeholders is stored as
\* written, and a remote line or block without placeholders is handed to run
\* as written.
C22_ConstantTextUnchanged ==
    [][/\ (IsTextAssign /\ ~HasPlaceholder(AssignText)) =>
              /\ Cur.name \in DOMAIN variables'
              /\ variables'[Cur.name].v = AssignText
       /\ (AtRemote /\ ~HasPlaceholder(RemoteText(Cur)) /\ RunCalled) =>
              trace'[Len(trace')].a = RemoteText(Cur)]_vars

\* C27: for a remote statement the order is template expansion, then
\* connection, then run: when the expansion of a remote statement fails, no
\* executor call is made by that statement (connect is not invoked) and the
\* error reported is the template error.
C27_ExpansionBeforeConnect ==
    [][(AtRemote /\ ~resolve_template(RemoteText(Cur), variables).ok) =>
           /\ trace' = trace
           /\ connected' = connected
           /\ status' = "err"
           /\ error'.kind = "Template"]_vars

RECURSIVE SameValue(_, _)
\* two values are the same value
SameValue(a, b) ==
    /\ a.tag = b.tag
    /\ IF a.tag = "Array"
       THEN /\ Len(a.v) = Len(b.v)
            /\ \A i \in 1..Len(a.v) : SameValue(a.v[i], b.v[i])
       ELSE a.v = b.v

RECURSIVE AssignedNames(_)
\* the names the statements may bind
AssignedNames(stmts) ==
    IF stmts = <<>> THEN {}
    ELSE (CASE Head(stmts).s = "Assign" -> {Head(stmts).name}
            [] Head(stmts).s = "ForLoop" ->
                   {Head(stmts).var} \cup AssignedNames(Head(stmts).body)
            [] OTHER -> {})
         \cup AssignedNames(Tail(stmts))

\* the loop on top of the stack has bound all its elements, at least one
AtLoopEnd ==
    /\ AtEnd
    /\ Top.loop
    /\ Top.idx = Len(Top.items)
    /\ Len(Top.items) > 0

\* C23: when a ForLoop over a non-empty array completes, its variable is
\* bound to the last element (its body not assigning it), whatever it was
\* bound to before the loop; and a binding, made by a loop or by an Assign
\* inside or outside a loop body, is never removed and keeps its value until
\* an Assign or a loop binds that name again.
C23_LoopBindingsPersist ==
    [][/\ (AtLoopEnd /\ Top.var \notin AssignedNames(Top.stmts)) =>
              /\ Top.var \in DOMAIN variables'
              /\ SameValue(variables'[Top.var], Top.items[Len(Top.items)])
       /\ \A n \in DOMAIN variables :
              /\ n \in DOMAIN variables'
              /\ ~SameValue(variables'[n], variables[n]) =>
                     \/ AtStatement /\ Cur.s = "Assign" /\ Cur.name = n
                     \/ AtEnd /\ Top.loop /\ Top.var = n]_vars

IsProgShadow ==
    /\ Len(script) = 7
    /\ script[1].s = "Assign" /\ script[1].name = "v"
    /\ script[3].s = "ForLoop" /\ script[3].var = "v"

\* the loop of ProgShadow is over: v, bound to 9 before it, holds the last
\* element, and w, assigned in the body, is bound
C23_Witness ==
    /\ IsProgShadow
    /\ status = "running"
    /\ Len(stack) = 1
    /\ Top.pc = 4
    /\ variables["v"].v = 2
    /\ variables["w"].v = 2

IsProgReassign ==
    /\ Len(script) = 10
    /\ script[3].s = "Assign" /\ script[3].name = "g"
    /\ script[6].s = "Assign" /\ script[6].name = "n"

\* C24: template expansion uses the environment as it is when the statement
\* executes.  An assigned string or heredoc is stored as its expansion
\* against the variables of that moment; the texts already handed to run
\* never change; and in ProgReassign, where n is reassigned and q assigned
\* after g = "h {{ n }}{{ q }}" was stored, g keeps the value built from the
\* first n and both remote lines carry it.
C24_ExpansionAtExecution ==
    [][/\ (IsTextAssign /\ status' = "running") =>
              /\ Cur.name \in DOMAIN variables'
              /\ variables'[Cur.name].v =
                     resolve_template(AssignText, variables).text
       /\ IsPrefix(trace, trace')
       /\ (IsProgReassign /\ status' = "ok") =>
              /\ variables'["g"].v = <<"h", " ", "w">>
              /\ variables'["n"].v = <<"z">>
              /\ ArgsOf(trace', "run") =
                     <<<<" ", "h", " ", "w">>, <<" ", "h", " ", "w", "z">>>>]_vars

\* ProgReassign ran to its end
C24_Witness ==
    /\ IsProgReassign
    /\ status = "ok"
    /\ variables["n"].v = <<"z">>
    /\ Len(ArgsOf(trace, "run")) = 2

\* an Assign is about to execute and its right-hand side fails to evaluate
AssignFails ==
    /\ AtStatement
    /\ Cur.s = "Assign"
    /\ ~evaluate(Cur.expr, variables).ok

\* C31: when the evaluation of the right-hand side of an Assign fails, the
\* statement fails and the environment is exactly what it was before: the
\* same names are bound, to the same values.
C31_FailedAssignKeepsEnvironment ==
    [][AssignFails =>
           /\ status' = "err"
           /\ DOMAIN variables' = DOMAIN variables
           /\ \A n \in DOMAIN variables : SameValue(variables'[n], variables[n])
           /\ trace' = trace]_vars

\* let y = ["a", "{{"] failed for a template error after y was bound to 1:
\* y is still 1
C31_Witness ==
    /\ status = "err"
    /\ error.kind = "Template"
    /\ Len(script) = 7
    /\ script[5].s = "Assign" /\ script[5].name = "y"
    /\ script[5].expr.e = "Array"
    /\ variables["y"].tag = "Integer" /\ variables["y"].v = 1
    /\ DOMAIN variables = {"n", "y"}

IsProgRebind ==
    /\ Len(script) = 5
    /\ script[3].s = "ForLoop" /\ script[3].var = "v"
    /\ Len(script[3].body) = 7
    /\ script[3].body[3].s = "Assign" /\ script[3].body[3].name = "a"

\* the texts ProgRebind is to hand to run: each element of [1, 2], then the
\* 5 the body assigned to v, and the last v after the loop
RebindExpected ==
    <<<<" ", "1">>, <<" ", "5">>, <<" ", "2">>, <<" ", "5">>, <<" ", "5">>>>

\* a ForLoop is about to execute and its iterable evaluates to an array
AtLoopOverArray ==
    /\ AtStatement
    /\ Cur.s = "ForLoop"
    /\ evaluate(Cur.expr, variables).ok
    /\ evaluate(Cur.expr, variables).val.tag = "Array"

\* the elements of the array the ForLoop about to execute loops over
IterableNow == evaluate(Cur.expr, variables).val.v

\* the frames of this state that are still there after the step
Kept == {k \in 1..Len(stack) : k <= Len(stack')}

RECURSIVE SameValues(_, _)
SameValues(xs, ys) ==
    /\ Len(xs) = Len(ys)
    /\ \A i \in 1..Len(xs) : SameValue(xs[i], ys[i])

SameEnv(e, f) ==
    /\ DOMAIN e = DOMAIN f
    /\ \A n \in DOMAIN e : SameValue(e[n], f[n])

\* what one step of a run does to the loops
LoopOnce ==
    \* the loop starts over the value its iterable has at that moment, with
    \* no element bound and no body statement to execute yet
    /\ AtLoopOverArray =>
           /\ Len(stack') = Len(stack) + 1
           /\ SameValues(stack'[Len(stack')].items, IterableNow)
           /\ stack'[Len(stack')].idx = 0
           /\ stack'[Len(stack')].pc > Len(stack'[Len(stack')].stmts)
           /\ SameEnv(variables', variables)
    \* no step changes the array of a loop that is under way
    /\ \A k \in Kept : SameValues(stack'[k].items, stack[k].items)
    \* at the end of the body the loop binds the next element of that array
    \* and starts the body again, or ends when there is none
    /\ (AtEnd /\ Top.loop /\ Top.idx < Len(Top.items)) =>
           /\ Len(stack') = Len(stack)
           /\ stack'[Len(stack')].idx = Top.idx + 1
           /\ stack'[Len(stack')].pc = 1
           /\ SameValue(variables'[Top.var], Top.items[Top.idx + 1])
    /\ (AtEnd /\ Top.loop /\ Top.idx >= Len(Top.items)) =>
           /\ Len(stack') = Len(stack) - 1
           /\ SameEnv(variables', variables)
           /\ trace' = trace
    \* ProgRebind: the calls made are the first of the expected ones, all of
    \* them when the run returned Ok
    /\ IsProgRebind =>
           /\ IsPrefix(ArgsOf(trace', "run"), RebindExpected)
           /\ status' = "ok" => ArgsOf(trace', "run") = RebindExpected

\* C32: the iterable of a ForLoop is evaluated once, when the statement
\* starts.  The loop goes over the elements of that value in order, one
\* iteration each, whatever the body assigns to the variable the iterable
\* was read from or to the loop variable; a loop over an empty array ends
\* without executing a body statement, with the environment and the calls
\* made unchanged.
C32_IterableEvaluatedOnce == [][LoopOnce]_vars

\* ProgRebind, whose body replaces a by [7, 8, 9] and v by 5, ran to its
\* end: the loop made two iterations
C32_Witness ==
    /\ IsProgRebind
    /\ status = "ok"
    /\ Len(variables["a"].v) = 3
    /\ variables["v"].v = 5
    /\ Len(ArgsOf(trace, "run")) = 5

\* the loop of ProgLoop over the empty array ended: nothing was bound or run
C32_WitnessEmpty ==
    /\ IsLoopProgram
    /\ LoopArray = <<>>
    /\ status = "ok"
    /\ DOMAIN variables = {"a"}
    /\ trace = <<>>

---------------------------------------------------------------------------
(* Properties of the SSH client's run operation                            *)

Returned == rpc = "done"

\* run_impl got as far as creating the script file on the remote host
FileCreated ==
    rresult \in {"write", "close", "channel", "exec", "read_stdout", "read_stderr",
                 "ok"}

\* C9: a run operation that created its ephemeral script file has issued an
\* unlink of that file by the time it returns, whatever the exit path.
C9_UnlinkOnEveryExit ==
    (Returned /\ FileCreated) =>
        \E i \in DOMAIN unlinks : unlinks[i].path = RemotePath

\* C10: a run operation that fails once the guard exists, at exec or at a
\* read of either stream, has issued exactly one unlink of the file when it
\* returns.
C10_UnlinkExactlyOnceOnFailure ==
    (Returned /\ rresult \in {"exec", "read_stdout", "read_stderr"}) =>
        /\ Len(unlinks) = 1
        /\ unlinks[1].path = RemotePath

\* a read of stderr failed after a line of output had been printed
C10_Witness ==
    /\ Returned
    /\ rresult = "read_stderr"
    /\ console # <<>>
    /\ Len(unlinks) = 1

\* C13: a run whose remote process exits with a non-zero status and whose
\* two streams were both read to end of stream returns Ok.
C13_NonZeroExitIsOk ==
    (Returned /\ remote_exit # 0 /\ stdout_done /\ stderr_done) => rresult = "ok"

\* a run returned Ok after printing output of a process that exited with 1
C13_Witness ==
    /\ Returned
    /\ remote_exit = 1
    /\ stdout_done /\ stderr_done
    /\ rresult = "ok"
    /\ console # <<>>

\* what was printed for a stream, entry by entry
EntriesOf(stream) ==
    LET OfStream(entry) == entry.stream = stream
    IN  SelectSeq(console, OfStream)

RECURSIVE Concat(_)
Concat(entries) ==
    IF entries = <<>> THEN <<>> ELSE Head(entries).text \o Concat(Tail(entries))

\* the text printed for a stream
Emitted(stream) == Concat(EntriesOf(stream))

\* the bytes read so far from a stream that delivers `all` and has `src` left
Received(all, src) == SubSeq(all, 1, Len(all) - Len(src))

\* the final flush of lines 228-237 is done
FlushDone == rpc = "return" \/ rresult = "ok"

\* every entry printed for the stream is one line ending in its newline,
\* but for a last entry without newline, printed by the final flush only
LinesOf(stream) ==
    LET entries == EntriesOf(stream)
    IN  \A i \in DOMAIN entries :
           /\ entries[i].text # <<>>
           /\ Position(entries[i].text, "\n") \in {0, Len(entries[i].text)}
           /\ Position(entries[i].text, "\n") = 0 => (i = Len(entries) /\ FlushDone)

InLoop == rpc \in {"loop", "read_stdout", "read_stderr", "check"}

ReadFailed == rpc' = "done" /\ rresult' \in {"read_stdout", "read_stderr"}

\* the step takes bytes from a stream
YieldsData == stdoutSrc' # stdoutSrc \/ stderrSrc' # stderrSrc

\* what a step of the streaming loop respects
LoopStep ==
    /\ (InLoop /\ ~InLoop') =>
           \/ rpc = "check" /\ stdout_done /\ stderr_done /\ rpc' = "flush"
           \/ ReadFailed
    /\ (rpc = "check" /\ stdout_done /\ stderr_done) => ~InLoop'
    /\ (rpc = "read_stdout" /\ stdout_done) =>
           /\ rpc' = "read_stderr"
           /\ UNCHANGED <<stdoutSrc, stdout_buf, stdout_done, console,
                          made_progress>>
    /\ (rpc = "read_stderr" /\ stderr_done) =>
           /\ rpc' = "check"
           /\ UNCHANGED <<stderrSrc, stderr_buf, stderr_done, console,
                          made_progress>>
    /\ (InLoop /\ stdout_done) => stdout_done'
    /\ (InLoop /\ stderr_done) => stderr_done'
    /\ YieldsData => made_progress'
    /\ slept' => (rpc \in {"check", "loop"} /\ ~made_progress)

\* C29: the streaming loop of run is left exactly when both streams have
\* reported their end or a read fails; a stream that has reported its end is
\* not read again (its step changes nothing and cannot fail); the loop
\* sleeps only in an iteration in which no stream yielded data; and once
\* both streams have reported their end, run returns.
C29_StreamingLoopEnds ==
    /\ [][LoopStep]_vars
    /\ (stdout_done /\ stderr_done) ~> Returned

\* both streams delivered bytes and reported their end, and the loop was left
C29_Witness ==
    /\ rpc = "flush"
    /\ stdout_done /\ stderr_done
    /\ stdoutAll # <<>>
    /\ stderrAll # <<>>

\* C30: whenever run returns, with Ok or with an error, the session is in
\* blocking mode again, and the unlink of the ephemeral file was issued on a
\* blocking session.
C30_ReturnsBlocking ==
    Returned =>
        /\ blocking
        /\ \A i \in DOMAIN unlinks : unlinks[i].blocking

\* channel.exec succeeded: the remote shell is running the script file
ScriptStarted ==
    rpc \in {"nonblock", "loop", "read_stdout", "read_stderr", "check", "flush",
             "return"}

\* the remote script has output still to deliver
Producing == ScriptStarted /\ (stdoutSrc # <<>> \/ stderrSrc # <<>>)

\* this step issues the execution command
ExecIssued == rpc = "exec" /\ execCmd' # execCmd

\* this step issues the unlink of the script file
UnlinkIssued == Len(unlinks') > Len(unlinks)

\* this step removes the script file
FileRemoved == remoteFile # "absent" /\ remoteFile' = "absent"

\* the file is complete and closed when the command is issued, and the
\* command names it
WrittenBeforeExec ==
    ExecIssued =>
        /\ remoteFile = "full"
        /\ guard
        /\ unlinks = <<>>
        /\ SubSeq(execCmd', Len(execCmd') - Len(RemotePath) + 1, Len(execCmd'))
               = RemotePath

\* on the success path the unlink comes after both streams ended
UnlinkAfterEof ==
    (UnlinkIssued /\ rresult' = "ok") =>
        /\ stdout_done /\ stderr_done
        /\ stdoutSrc = <<>> /\ stderrSrc = <<>>
        /\ ScriptStarted

\* the statement of C33 as it was made: in one run operation the script
\* file is written and closed before the execution command is issued, on
\* the success path its unlink is issued after both streams reached their
\* end, and the file is never removed while the script has output to deliver
C33_NeverRemovedWhileProducing ==
    [][/\ WrittenBeforeExec
       /\ UnlinkAfterEof
       /\ (UnlinkIssued \/ FileRemoved) => ~Producing]_vars

\* C33 (amended): in one run operation the script file is written and closed
\* before the execution command is issued, and on the success path its
\* unlink is issued after both streams reached their end; the unlink is
\* issued, and the file removed, while the script has output to deliver only
\* when a read of a stream fails and run returns that error.
C33_UnlinkAfterStreamsEnd ==
    [][/\ WrittenBeforeExec
       /\ UnlinkAfterEof
       /\ ((UnlinkIssued \/ FileRemoved) /\ Producing) =>
              /\ ReadFailed
              /\ rpc \in {"read_stdout", "read_stderr"}]_vars

\* a run whose script wrote to both streams returned Ok and the file is gone
C33_Witness ==
    /\ Returned
    /\ rresult = "ok"
    /\ Len(stdoutAll) = MaxOut /\ stderrAll # <<>>
    /\ execCmd # <<>>
    /\ Len(unlinks) = 1
    /\ remoteFile = "absent"

\* a run returned a read error with output still to come and the file is gone
C33_WitnessReadError ==
    /\ Returned
    /\ rresult = "read_stderr"
    /\ stdoutSrc # <<>>
    /\ Len(unlinks) = 1
    /\ remoteFile = "absent"

---------------------------------------------------------------------------
(* Properties of the SSH client's upload operation                         *)

\* the remote mv has run to its end
MvEnded == mv \in {"moved", "nofile"}

\* C11: in an upload with sudo that returns Ok, the guard's unlink never
\* removes the staged file (it comes after the move and finds the file gone)
\* and, once the remote move has ended, the destination holds the uploaded
\* bytes.
C11_UnlinkAfterMove ==
    (use_sudo /\ uresult = "ok") =>
        /\ \A i \in DOMAIN temp_unlinks : temp_unlinks[i] # "removed"
        /\ MvEnded => files[DstPath] = Some(upload_content)

---------------------------------------------------------------------------
(* Properties of the parser and of the parse error report                  *)

Parsed == pstatus = "parsed"
ParseFailed == pstatus = "failed"

\* C21: for any text that fails to parse, the reported 1-based line and
\* column lie inside the text: the line is at most the number of lines of
\* the text, and the column is at most the length of that line plus one.
C21_ParseErrorInsideText ==
    ParseFailed =>
        /\ perror.line >= 1
        /\ perror.line <= Len(lines(contents))
        /\ perror.col >= 1
        /\ perror.col <= Len(lines(contents)[perror.line]) + 1

\* a heredoc is opened at offset p and its closing tag never comes
UnterminatedHeredocAt(p) ==
    /\ seq(<<"<", "<", "<">>, contents, p).ok
    /\ heredoc_expression(contents, p).kind = "Incomplete"

\* a text ending in a newline whose heredoc is not terminated was reported,
\* the error being on its last line
C21_Witness ==
    /\ ParseFailed
    /\ contents[Len(contents)] = "\n"
    /\ \E p \in 0..Len(contents) : UnterminatedHeredocAt(p)
    /\ perror.line = Len(lines(contents))

\* the text is `let x = ` followed by decimal digits only
IsDigitAssignment ==
    /\ Len(contents) > Len(LetX)
    /\ SubSeq(contents, 1, Len(LetX)) = LetX
    /\ \A i \in (Len(LetX) + 1)..Len(contents) : contents[i] \in Digits

AssignedDigits == SubSeq(contents, Len(LetX) + 1, Len(contents))

\* C26: a text `let x = d`, d being decimal digits that fit an i64 (leading
\* zeros allowed), parses to exactly one statement, the assignment to x of
\* the integer literal whose decimal form is d without its leading zeros.
C26_IntegerAssignment ==
    (pstatus # "new" /\ IsDigitAssignment /\ FitsI64(AssignedDigits)) =>
        /\ Parsed
        /\ Len(ast) = 1
        /\ ast[1].s = "Assign"
        /\ ast[1].name = "x"
        /\ ast[1].expr.e = "Literal"
        /\ ast[1].expr.v.tag = "Integer"
        /\ IntToChars(ast[1].expr.v.v) = StripZeros(AssignedDigits)

\* digits with leading zeros were assigned
C26_Witness ==
    /\ Parsed
    /\ IsDigitAssignment
    /\ Len(AssignedDigits) > 1
    /\ Head(AssignedDigits) = "0"
    /\ ast[1].expr.v.v = 19

\* the heredocs of the text: where one parses, its tag and result
HeredocAt(p) == heredoc_expression(contents, p)

\* the offset right after the first closing tag of the heredoc opened at p
TerminatorEnd(p) ==
    LET stop == repeat_one_of(Alpha, contents, p + 3)
        close_tag == Slice(contents, p + 3, stop) \o <<">", ">", ">">>
    IN  until_exact(close_tag, contents, stop).pos

UploadHeredocText == Pieces[6]

\* C28: a heredoc yields the bytes between its opening tag and the first
\* closing tag, and parsing resumes at the byte right after the closing
\* tag, so that upload(<<<T a T>>>, "/p") is a call with two arguments.
C28_HeredocResumesAfterTerminator ==
    pstatus # "new" =>
        /\ \A p \in 0..Len(contents) :
               HeredocAt(p).ok => HeredocAt(p).pos = TerminatorEnd(p)
        /\ contents = UploadHeredocText =>
               /\ Parsed
               /\ Len(ast) = 1
               /\ ast[1].s = "FnCall"
               /\ Len(ast[1].args) = 2

---------------------------------------------------------------------------
(* Properties of the SSH client's connect operation                        *)

ConnReturned == cresult # "none"

\* the identities tried so far, in the order tried
TriedIdentities == [i \in 1..Len(tried) |-> tried[i].identity]

\* C25: connect tries the agent's identities in the order the agent lists
\* them and stops at the first that succeeds, later ones never being tried;
\* when every identity fails, or the agent lists none, connect fails with
\* BadTarget and stores no session.
C25_AgentIdentitiesInOrder ==
    /\ identities.some => IsPrefix(TriedIdentities, identities.v)
    /\ \A i \in 1..(Len(tried) - 1) : ~tried[i].ok
    /\ (ConnReturned /\ identities.some /\ \E i \in DOMAIN tried : tried[i].ok) =>
           cresult = "ok" /\ session
    /\ (ConnReturned /\ identities.some /\ \A i \in DOMAIN tried : ~tried[i].ok) =>
           /\ Len(tried) = Len(identities.v)
           /\ cresult = "BadTarget"
           /\ ~session
    /\ cresult = "ok" => tried # <<>> /\ tried[Len(tried)].ok

\* the second of three identities was accepted and connect returned
C25_Witness ==
    /\ cresult = "ok"
    /\ Len(identities.v) = 3
    /\ Len(tried) = 2
    /\ session

====
